---------------------------- MODULE Spec2Model ----------------------------
(***************************************************************************)
(* Boros vault monitor: the vault lifecycle tracker (src/vaultMonitor.ts), *)
(* its snapshot store (src/stateManager.ts) and the chain it polls.        *)
(*                                                                         *)
(* The chain is the environment: a log of blocks (each carrying at most    *)
(* one AMMCreated or TotalSupplyCapUpdated event), the supply of every     *)
(* vault and the floating time index of the markets.  The monitor is one   *)
(* process whose position is pc; each of its awaited phases is one action. *)
(***************************************************************************)
EXTENDS Integers, Sequences, FiniteSets, TLC

\* ------------------------------------------------------------------ bounds
MaxBlocks  == 3      \* blocks mined on top of BaseHeight
MaxFTime   == 1      \* largest floating time index of the markets
MaxLag     == 1      \* blocks an RPC node may lag behind the chain
BaseHeight == 118    \* chain height when the behaviour starts

\* ------------------------------------------------------- program constants
STATUS_CHECK_INTERVAL_BLOCKS == 120
FILLED_THRESHOLD_PERCENT     == 98
START_BLOCK                  == 0     \* CONFIG.START_BLOCK undefined: START_BLOCK || 0
lookbackBlocks               == 100800

\* ------------------------------------------------------------ value sets
VaultIds     == {"0xa1", "0xb2"}          \* lower-case vault addresses
CapValues    == {1000, 2000}
SupplyValues == {500, 980}
InitialCap   == 1000                      \* cap of a vault when it is created
Live         == {"0xb2"}                  \* vaults the factory creates
Active       == {"0xb2"}                  \* vaults whose cap and supply move
NoAbort      == 2 * MaxBlocks + 1         \* "no failure" position
Instants     == {1, 30000, 30001}  \* readings of the wall clock (ms)
Epoch        == CHOOSE t \in Instants : \A u \in Instants : t <= u

VARIABLES
  log,                  \* chain: log[i] is the event of block BaseHeight + i
  supply,               \* chain: totalSupply() of every vault
  ftime,                \* chain: getLatestFTime() of the markets
  file,                 \* the state file (serialized MonitorState) or absent
  pc,                   \* position of the monitor process
  fromBlock, toBlock,   \* locals of the running loop iteration
  lastStatusCheckBlock, \* VaultMonitor.lastStatusCheckBlock
  isRunning,            \* VaultMonitor.isRunning
  sent,                 \* notifications emitted by the last step, in order
  last,                 \* history: the last step and the inputs it drew
  created,              \* history: VaultCreated notifications per vault (capped at 2)
  firstSeen,            \* history: how each vault was first observed
  arg, res,             \* input and result of the functions under test
  cachedLiveVaultsMessage,    \* VaultMonitor.cachedLiveVaultsMessage
  cachedLiveVaultsTimestamp,  \* VaultMonitor.cachedLiveVaultsTimestamp
  now,                  \* Date.now(): the wall clock, in milliseconds
  pending,              \* the /liveVaults request that is being computed, if any
  stale,                \* history: the cache was invalidated while the response
                        \* in flight or in the cache was being computed
  raised,               \* history: CapRaised notifications per observed vault
                        \* (capped at 2)
  afterStop             \* history: -1 until stop() is called, then the number
                        \* of loop iterations begun since (capped at 2)

chainVars == <<log, supply, ftime>>
procVars  == <<pc, fromBlock, toBlock, lastStatusCheckBlock, isRunning>>
fnVars    == <<arg, res>>
histVars  == <<created, firstSeen, raised, afterStop>>
cacheVars == <<cachedLiveVaultsMessage, cachedLiveVaultsTimestamp, now, pending, stale>>
vars == <<log, supply, ftime, file, pc, fromBlock, toBlock,
          lastStatusCheckBlock, isRunning, sent, last, created, firstSeen,
          arg, res, cachedLiveVaultsMessage, cachedLiveVaultsTimestamp, now,
          pending, stale, raised, afterStop>>

\* private cachedLiveVaultsMessage: string | null = null
NoMessage == [text |-> "null", vaults |-> << >>]

\* No /liveVaults request is between its first and its last await.
NoRequest == [active |-> FALSE, at |-> 0, liveVaults |-> << >>]

\* ================================================================== chain
\* The address as the contracts emit it (checksummed, mixed case).
Checksum(v) == IF v = "0xa1" THEN "0xA1" ELSE "0xB2"

\* String.prototype.toLowerCase on the address strings of the model.
toLowerCase(s) ==
  CASE s = "0xA1" -> "0xa1"
    [] s = "0xB2" -> "0xb2"
    [] OTHER      -> s

\* MATURITY() of a vault: immutable.
MATURITY(v) == IF toLowerCase(v) = "0xa1" THEN 2 ELSE 1

height == BaseHeight + Len(log)

\* What getBlockNumber may return: the height, or the height of a node
\* that lags behind.
Heights == {h \in (height - MaxLag)..height : h >= BaseHeight}

NoEvent == [type |-> "none", amm |-> "", cap |-> 0]

IsCreated(v) == \E i \in 1..Len(log) : log[i].type = "create" /\ log[i].amm = v

\* totalSupplyCap() of a vault: the cap set by its last event.
totalSupplyCapOf(v) ==
  LET idx == {i \in 1..Len(log) : log[i].amm = toLowerCase(v)}
      m   == CHOOSE i \in idx : \A j \in idx : j <= i
  IN  IF idx = {} THEN 0 ELSE log[m].cap

totalSupplyOf(v) == supply[toLowerCase(v)]

\* name(), symbol() and MARKET() of a vault: immutable.
nameOf(v)   == "Boros AMM"
symbolOf(v) == "BLP"
MARKET(v)   == "0xmarket"

\* fetchDepositTokenSymbol: the symbol of the market's deposit token, or
\* null (the empty string here) when a lookup fails or finds no token.
fetchDepositTokenSymbol(marketAddress, ok) == IF ok THEN "USDT" ELSE ""

\* { ...rec, [field]: value || undefined }: a falsy string leaves the field
\* undefined.
OrUndefined(rec, field, value) ==
  IF value = "" THEN rec ELSE (field :> value) @@ rec

\* The log with block numbers, as queryFilter sees it.
Numbered == [i \in 1..Len(log) |->
               [blockNumber |-> BaseHeight + i, type |-> log[i].type,
                amm |-> log[i].amm, cap |-> log[i].cap]]

\* queryFilter(filter, fromB, toB): the matching events in ascending block
\* order.
queryFilter(type, amm, fromB, toB) ==
  SelectSeq(Numbered, LAMBDA e : /\ e.type = type
                                 /\ (amm = "*" \/ e.amm = toLowerCase(amm))
                                 /\ fromB <= e.blockNumber
                                 /\ e.blockNumber <= toB)

\* The chain moves while the monitor sleeps or starts; during the steps of
\* one iteration the monitor sees it move only through the lag of its node.
ChainMoves == pc \in {"init", "baseline", "loop"}

\* A block is mined, with at most one event in it.
NewBlock ==
  /\ ChainMoves
  /\ Len(log) < MaxBlocks
  /\ \E e \in {NoEvent}
        \cup {[type |-> "create", amm |-> v, cap |-> InitialCap] :
                 v \in {w \in Live : ~IsCreated(w)}}
        \cup {[type |-> "cap", amm |-> v, cap |-> c] :
                 v \in {w \in Active : IsCreated(w)}, c \in CapValues} :
       log' = Append(log, e)
  /\ UNCHANGED <<supply, ftime, file, procVars, histVars, fnVars, cacheVars>>
  /\ sent' = << >>
  /\ last' = [op |-> "chain"]

\* Deposits and withdrawals change the supply of a vault without any event.
SupplyChange ==
  /\ ChainMoves
  /\ \E v \in Active, s \in SupplyValues :
       /\ IsCreated(v)
       /\ s # supply[v]
       /\ supply' = [supply EXCEPT ![v] = s]
  /\ UNCHANGED <<log, ftime, file, procVars, histVars, fnVars, cacheVars>>
  /\ sent' = << >>
  /\ last' = [op |-> "chain"]

\* The FIndex oracle advances the floating time index; it never goes back.
TimeAdvance ==
  /\ ChainMoves
  /\ ftime < MaxFTime
  /\ ftime' = ftime + 1
  /\ UNCHANGED <<log, supply, file, procVars, histVars, fnVars, cacheVars>>
  /\ sent' = << >>
  /\ last' = [op |-> "chain"]

\* ================================================================== store
\* bigint.toString() and BigInt(string): the decimal-string boundary.
toString(n) == <<"dec", n>>
BigInt(s)   == s[2]

\* value || fallback on a field of a parsed object.
Or(p, f, fallback) == IF f \in DOMAIN p THEN p[f] ELSE fallback

\* The object saveState builds for one vault (stateManager.ts 62-74): the
\* eleven fields it names and no other field of the VaultState.  A
\* depositTokenSymbol that is undefined (absent from the record) is left
\* out by JSON.stringify.
SerializeVault(v) ==
  IF "depositTokenSymbol" \in DOMAIN v
    THEN [address              |-> v.address,
          name                 |-> v.name,
          symbol               |-> v.symbol,
          totalSupplyCap       |-> toString(v.totalSupplyCap),
          lastKnownTotalSupply |-> toString(v.lastKnownTotalSupply),
          isFilled             |-> v.isFilled,
          maturity             |-> toString(v.maturity),
          marketAddress        |-> v.marketAddress,
          lastCheckedBlock     |-> v.lastCheckedBlock,
          createdAt            |-> v.createdAt,
          depositTokenSymbol   |-> v.depositTokenSymbol]
    ELSE [address              |-> v.address,
          name                 |-> v.name,
          symbol               |-> v.symbol,
          totalSupplyCap       |-> toString(v.totalSupplyCap),
          lastKnownTotalSupply |-> toString(v.lastKnownTotalSupply),
          isFilled             |-> v.isFilled,
          maturity             |-> toString(v.maturity),
          marketAddress        |-> v.marketAddress,
          lastCheckedBlock     |-> v.lastCheckedBlock,
          createdAt            |-> v.createdAt]

\* The VaultState loadState rebuilds from a parsed vault (stateManager.ts
\* 26-38), with the defaults of its `||` operators.
ParseVault(p) ==
  LET createdAt == Or(p, "createdAt", 0)
      tokenSym  == Or(p, "depositTokenSymbol", "")
  IN  IF tokenSym # ""
        THEN [address              |-> p.address,
              name                 |-> p.name,
              symbol               |-> p.symbol,
              totalSupplyCap       |-> BigInt(p.totalSupplyCap),
              lastKnownTotalSupply |-> BigInt(Or(p, "lastKnownTotalSupply", toString(0))),
              isFilled             |-> Or(p, "isFilled", FALSE),
              maturity             |-> BigInt(Or(p, "maturity", toString(0))),
              marketAddress        |-> Or(p, "marketAddress", ""),
              lastCheckedBlock     |-> Or(p, "lastCheckedBlock", 0),
              createdAt            |-> IF createdAt # 0 THEN createdAt ELSE now,
              depositTokenSymbol   |-> tokenSym]
        ELSE [address              |-> p.address,
              name                 |-> p.name,
              symbol               |-> p.symbol,
              totalSupplyCap       |-> BigInt(p.totalSupplyCap),
              lastKnownTotalSupply |-> BigInt(Or(p, "lastKnownTotalSupply", toString(0))),
              isFilled             |-> Or(p, "isFilled", FALSE),
              maturity             |-> BigInt(Or(p, "maturity", toString(0))),
              marketAddress        |-> Or(p, "marketAddress", ""),
              lastCheckedBlock     |-> Or(p, "lastCheckedBlock", 0),
              createdAt            |-> IF createdAt # 0 THEN createdAt ELSE now]

Serialize(state) ==
  [lastProcessedBlock |-> state.lastProcessedBlock,
   vaults |-> [i \in 1..Len(state.vaults) |->
                 [key |-> state.vaults[i].key, v |-> SerializeVault(state.vaults[i].v)]]]

Parse(data) ==
  [lastProcessedBlock |-> data.lastProcessedBlock,
   vaults |-> [i \in 1..Len(data.vaults) |->
                 [key |-> data.vaults[i].key, v |-> ParseVault(data.vaults[i].v)]]]

\* The state loadState returns when the file is missing or unreadable.
DefaultState == [lastProcessedBlock |-> START_BLOCK, vaults |-> << >>]

NoFile == [exists |-> FALSE, data |-> Serialize(DefaultState)]

\* A store context: the file and the number of file operations done so far
\* in the running step.  The k-th file operation of a step fails; k = 0
\* means none does.
Ctx(f)       == [file |-> f, n |-> 0]
tick(c)      == [c EXCEPT !.n = @ + 1]
ioFails(c, k) == c.n + 1 = k

\* StateManager.loadState: a read or parse error is caught and the default
\* state is returned.
loadState(c, k) ==
  IF c.file.exists /\ ~ioFails(c, k) THEN Parse(c.file.data) ELSE DefaultState

\* StateManager.saveState: a write error is caught and the file is left as
\* it was.
saveState(c, state, k) ==
  [file |-> IF ioFails(c, k) THEN c.file
            ELSE [exists |-> TRUE, data |-> Serialize(state)],
   n    |-> c.n + 1]

KeyIndex(vaults, key) == {i \in 1..Len(vaults) : vaults[i].key = key}

\* A write that keeps only the record it writes.
SetKey_only(vaults, key, v) == <<[key |-> key, v |-> v]>>

\* state.vaults[key] = v on an object: an existing key keeps its place, a
\* new key goes last.
SetKey(vaults, key, v) ==
  IF KeyIndex(vaults, key) # {}
    THEN [i \in 1..Len(vaults) |->
            IF vaults[i].key = key THEN [key |-> key, v |-> v] ELSE vaults[i]]
    ELSE Append(vaults, [key |-> key, v |-> v])

\* StateManager.addVault
addVault(c, vault, k) ==
  LET state == loadState(c, k)
  IN  saveState(tick(c),
                [state EXCEPT !.vaults = SetKey(@, toLowerCase(vault.address), vault)],
                k)

\* { ...old, ...updates }
Spread(old, updates) == updates @@ old

\* An updateVault that writes the updates under the address whether or not
\* the store holds a record for it.
updateVault_upsert(c, address, updates, k) ==
  LET state == loadState(c, k)
      addr  == toLowerCase(address)
      idx   == KeyIndex(state.vaults, addr)
      old   == IF idx # {} THEN state.vaults[CHOOSE i \in idx : TRUE].v
               ELSE [address |-> address, name |-> "", symbol |-> "",
                     totalSupplyCap |-> 0, lastKnownTotalSupply |-> 0,
                     isFilled |-> FALSE, maturity |-> 0, marketAddress |-> "",
                     lastCheckedBlock |-> 0, createdAt |-> now]
  IN  saveState(tick(c),
                [state EXCEPT !.vaults = SetKey(@, addr, Spread(old, updates))], k)

\* StateManager.updateVault
updateVault(c, address, updates, k) ==
  LET state == loadState(c, k)
      addr  == toLowerCase(address)
      idx   == KeyIndex(state.vaults, addr)
  IN  IF idx # {}
        THEN saveState(tick(c),
               [state EXCEPT !.vaults =
                  SetKey(@, addr, Spread(state.vaults[CHOOSE i \in idx : TRUE].v, updates))],
               k)
        ELSE tick(c)

\* getVault looking the address up as it is given, without lower-casing it.
getVault_exact(c, address, k) ==
  LET state == loadState(c, k)
  IN  {state.vaults[i].v : i \in KeyIndex(state.vaults, address)}

\* StateManager.getVault: the set holding the record, empty when undefined.
getVault(c, address, k) ==
  LET state == loadState(c, k)
  IN  {state.vaults[i].v : i \in KeyIndex(state.vaults, toLowerCase(address))}

\* StateManager.getAllVaults: Object.values, in insertion order.
getAllVaults(c, k) ==
  LET state == loadState(c, k)
  IN  [i \in 1..Len(state.vaults) |-> state.vaults[i].v]

\* What is on disk, read back without faults.
Stored == IF file.exists THEN Parse(file.data) ELSE DefaultState
StoredKeys == {Stored.vaults[i].key : i \in 1..Len(Stored.vaults)}
StoredVault(key) == Stored.vaults[CHOOSE i \in KeyIndex(Stored.vaults, key) : TRUE].v

\* ================================================================ tracker
\* isVaultFilled with a strict comparison against the threshold.
isVaultFilled_strict(currentSupply, totalSupplyCap) ==
  IF totalSupplyCap = 0
    THEN FALSE
    ELSE (currentSupply * 10000) \div totalSupplyCap > FILLED_THRESHOLD_PERCENT * 100

\* VaultMonitor.isVaultFilled
isVaultFilled(currentSupply, totalSupplyCap) ==
  IF totalSupplyCap = 0
    THEN FALSE
    ELSE LET utilizationBasisPoints == (currentSupply * 10000) \div totalSupplyCap
             thresholdBasisPoints   == FILLED_THRESHOLD_PERCENT * 100
         IN  utilizationBasisPoints >= thresholdBasisPoints

\* A notification: the notifier method called and its arguments.  prevCap
\* and prevFilled are history: what the store held for the vault when the
\* call was made.
Notification(kind, vault, isFilled, oldCap, newCap, currentSupply, prevCap, prevFilled) ==
  [kind |-> kind, address |-> vault.address, isFilled |-> isFilled,
   oldCap |-> oldCap, newCap |-> newCap, currentSupply |-> currentSupply,
   cap |-> vault.totalSupplyCap, supply |-> vault.lastKnownTotalSupply,
   prevCap |-> prevCap, prevFilled |-> prevFilled]

\* Notifier.notifyNewVault(vault, isFilled): "New Vault Created!"
notifyNewVault(vault, isFilled, prevCap, prevFilled) ==
  Notification("VaultCreated", vault, isFilled, 0, 0, 0, prevCap, prevFilled)

\* Notifier.notifyCapRaised(vault, oldCap, newCap, currentSupply)
notifyCapRaised(vault, oldCap, newCap, currentSupply, prevCap, prevFilled) ==
  Notification("CapRaised", vault, FALSE, oldCap, newCap, currentSupply, prevCap, prevFilled)

\* A notifier whose "filled" call announces the vault as available.
notifyVaultFilled_asAvailable(vault, prevCap, prevFilled) ==
  Notification("VaultAvailable", vault, FALSE, 0, 0, 0, prevCap, prevFilled)

\* Notifier.notifyVaultFilled(vault)
notifyVaultFilled(vault, prevCap, prevFilled) ==
  Notification("VaultFilled", vault, TRUE, 0, 0, 0, prevCap, prevFilled)

\* Notifier.notifyVaultAvailable(vault, currentSupply)
notifyVaultAvailable(vault, currentSupply, prevCap, prevFilled) ==
  Notification("VaultAvailable", vault, FALSE, 0, 0, currentSupply, prevCap, prevFilled)

\* Number of notifications of one kind for one vault in a sequence.
CountKind(out, kind, v) ==
  Cardinality({i \in 1..Len(out) : out[i].kind = kind /\ toLowerCase(out[i].address) = v})

Min(a, b) == IF a < b THEN a ELSE b

Bump(out) == [v \in VaultIds |-> Min(2, created[v] + CountKind(out, "VaultCreated", v))]
\* The CapRaised notifications of the vaults under observation.
BumpRaised(out) == [v \in DOMAIN raised |-> Min(2, raised[v] + CountKind(out, "CapRaised", v))]

\* History: the vaults of events that a loop reached (oc holds the outcome
\* of every event reached) and did not find in the store are first seen
\* the way `how` says, unless they were seen before.
Seen(events, oc, how) ==
  [v \in VaultIds |->
     IF firstSeen[v] = "none"
        /\ \E i \in 1..Len(oc) : oc[i] # "known" /\ toLowerCase(events[i].amm) = v
       THEN how ELSE firstSeen[v]]

\* The record the store holds for a vault in file f, as a set.
FileVault(f, address) == getVault(Ctx(f), address, 0)

\* Where a step's awaited calls fail: at = 0 is the first call of the body
\* (the log query or the first contract read), at = i the calls made for
\* the i-th event, NoAbort none.  kind "read" is a chain read that rejects,
\* kind "notify" a notifier call that throws after it was made.
NoFail == [at |-> NoAbort, kind |-> "read"]
FailSet(kinds) ==
  {NoFail} \cup {[at |-> 0, kind |-> "read"]}
           \cup {[at |-> i, kind |-> kd] : i \in 1..MaxBlocks, kd \in kinds}

\* The addresses of a query result, checksummed (as ethers decodes them) or
\* lower-case (as a replayed log may carry them).
Fmt(events, upper) ==
  [i \in 1..Len(events) |->
     [events[i] EXCEPT !.amm = IF upper THEN Checksum(@) ELSE @]]

\* invalidateLiveVaultsCache(), when a step called it (inv); the cache is
\* left alone otherwise.
invalidateLiveVaultsCache(inv) ==
  /\ cachedLiveVaultsMessage' = IF inv THEN NoMessage ELSE cachedLiveVaultsMessage
  /\ cachedLiveVaultsTimestamp' = IF inv THEN 0 ELSE cachedLiveVaultsTimestamp
  /\ stale' = IF inv THEN pending.active ELSE stale
  /\ UNCHANGED <<now, pending>>

\* ------------------------------------------------------ monitorNewVaults
\* New-vault detection that never takes a vault for expired.
isExpired_monitorNewVaults_never(latestFTime, maturity) == FALSE

\* const isExpired = latestFTime >= maturity (vaultMonitor.ts 579)
isExpired_monitorNewVaults(latestFTime, maturity) == latestFTime >= maturity

\* The body of the for loop of monitorNewVaults, from event i on.  r is the
\* running result: the store context, the notifications and the outcome of
\* every event handled so far.
RECURSIVE newVaultsLoop(_, _, _, _, _)
newVaultsLoop(events, i, r, fl, k) ==
  IF i > Len(events) THEN r
  ELSE
    LET ammAddress == events[i].amm
        existing   == getVault(r.c, ammAddress, k)
        c1         == tick(r.c)
    IN
    IF existing # {}
      THEN newVaultsLoop(events, i + 1,
                         [r EXCEPT !.c = c1, !.oc = Append(@, "known")], fl, k)
    ELSE IF fl.at = i /\ fl.kind = "read"
      THEN [r EXCEPT !.c = c1, !.oc = Append(@, "readFailed")]
    ELSE
      LET totalSupplyCap == totalSupplyCapOf(ammAddress)
          totalSupply    == totalSupplyOf(ammAddress)
          maturity       == MATURITY(ammAddress)
          latestFTime    == ftime
          isExpired      == isExpired_monitorNewVaults(latestFTime, maturity)
          marketAddress  == MARKET(ammAddress)
          depositTokenSymbol == fetchDepositTokenSymbol(marketAddress, TRUE)
          vault == OrUndefined(
                     [address              |-> ammAddress,
                      name                 |-> nameOf(ammAddress),
                      symbol               |-> symbolOf(ammAddress),
                      totalSupplyCap       |-> totalSupplyCap,
                      lastKnownTotalSupply |-> totalSupply,
                      isFilled             |-> isVaultFilled(totalSupply, totalSupplyCap),
                      maturity             |-> maturity,
                      marketAddress        |-> marketAddress,
                      lastCheckedBlock     |-> events[i].blockNumber,
                      createdAt            |-> now],
                     "depositTokenSymbol", depositTokenSymbol)
          c2   == addVault(c1, vault, k)
          out2 == Append(r.out, notifyNewVault(vault, vault.isFilled, 0, FALSE))
      IN
      IF isExpired
        THEN newVaultsLoop(events, i + 1,
                           [r EXCEPT !.c = c2, !.inv = TRUE, !.oc = Append(@, "expired")], fl, k)
      ELSE IF fl.at = i /\ fl.kind = "notify"
        THEN [r EXCEPT !.c = c2, !.inv = TRUE, !.out = out2,
                       !.oc = Append(@, "notifyFailed")]
      ELSE newVaultsLoop(events, i + 1,
                         [r EXCEPT !.c = c2, !.inv = TRUE, !.out = out2,
                                  !.oc = Append(@, "notified")],
                         fl, k)

\* VaultMonitor.monitorNewVaults: a failure anywhere is caught outside the
\* for loop, which ends the loop.
monitorNewVaults(c, events, fl, k) ==
  IF fl.at = 0
    THEN [c |-> c, out |-> << >>, oc |-> << >>, inv |-> FALSE]
    ELSE newVaultsLoop(events, 1, [c |-> c, out |-> << >>, oc |-> << >>, inv |-> FALSE], fl, k)

\* ------------------------------------------------------------- monitor
\* The head of a loop iteration (vaultMonitor.ts 508-514): read the height,
\* load the state, decide whether there is a range to process.
fromBlockOf_skip(state) == state.lastProcessedBlock + 2

\* const fromBlock = state.lastProcessedBlock + 1
fromBlockOf(state) == state.lastProcessedBlock + 1

\* A monitor loop that a caught exception ends.
monitorCatch_stop(running) == FALSE

\* catch (error) { console.error('Error in monitor loop:', error); } in
\* monitor(): isRunning is left as it was.
monitorCatch(running) == running

IterBegin(KS) ==
  /\ pc = "loop"
  /\ isRunning
  /\ \E ok \in BOOLEAN, currentBlock \in Heights, k \in KS :
       LET state == loadState(Ctx(file), k)
           from  == fromBlockOf(state)
       IN  /\ IF ok /\ from <= currentBlock
                THEN /\ pc' = "newVaults"
                     /\ fromBlock' = from
                     /\ toBlock' = currentBlock
                ELSE /\ pc' = "loop"
                     /\ UNCHANGED <<fromBlock, toBlock>>
           /\ last' = [op |-> "monitor", ranged |-> ok /\ from <= currentBlock]
           /\ isRunning' = IF ok THEN isRunning ELSE monitorCatch(isRunning)
  /\ afterStop' = IF afterStop < 0 THEN afterStop ELSE Min(2, afterStop + 1)
  /\ sent' = << >>
  /\ UNCHANGED <<chainVars, file, lastStatusCheckBlock, created, firstSeen, raised,
                 fnVars, cacheVars>>

\* await this.monitorNewVaults(fromBlock, currentBlock)
MonitorNewVaults(KS, kinds) ==
  /\ pc = "newVaults"
  /\ \E replay \in {"none", "same", "lower"}, fl \in FailSet(kinds), k \in KS :
       LET base   == queryFilter("create", "*", fromBlock, toBlock)
           events == Fmt(base, TRUE)
                       \o (IF replay = "none" THEN << >> ELSE Fmt(base, replay = "same"))
           r      == monitorNewVaults(Ctx(file), events, fl, k)
       IN  /\ file' = r.c.file
           /\ invalidateLiveVaultsCache(r.inv)
           /\ sent' = r.out
           /\ created' = Bump(r.out)
           /\ raised' = BumpRaised(r.out)
           /\ firstSeen' = Seen(events, r.oc, "event")
           /\ last' = [op |-> "monitorNewVaults", events |-> events, oc |-> r.oc]
  /\ pc' = "capUpdates"
  /\ UNCHANGED <<chainVars, fromBlock, toBlock, lastStatusCheckBlock, isRunning,
                 afterStop, fnVars>>

\* The tail of a loop iteration (vaultMonitor.ts 531-534): load the state,
\* set lastProcessedBlock, save; then the sleep.
Advance(KS) ==
  /\ pc = "advance"
  /\ \E k \in KS :
       LET c        == Ctx(file)
           newState == [loadState(c, k) EXCEPT !.lastProcessedBlock = toBlock]
       IN  /\ file' = saveState(tick(c), newState, k).file
           /\ last' = [op |-> "advance"]
  /\ pc' = "loop"
  /\ sent' = << >>
  /\ UNCHANGED <<chainVars, fromBlock, toBlock, lastStatusCheckBlock, isRunning,
                 histVars, fnVars, cacheVars>>

\* ----------------------------------------------------- monitorCapUpdates
\* Cap-update detection that never takes a vault for expired.
isExpired_monitorCapUpdates_never(latestFTime, maturity) == FALSE

\* const isExpired = latestFTime >= vault.maturity (vaultMonitor.ts 633)
isExpired_monitorCapUpdates(latestFTime, maturity) == latestFTime >= maturity

\* The stored cap and fill flag of a vault in the store context c (0 and
\* FALSE when it has no record): history for the notifications.
CapIn(c, address) ==
  LET s == FileVault(c.file, address)
  IN  IF s = {} THEN 0 ELSE (CHOOSE x \in s : TRUE).totalSupplyCap
FilledIn(c, address) ==
  LET s == FileVault(c.file, address)
  IN  IF s = {} THEN FALSE ELSE (CHOOSE x \in s : TRUE).isFilled

\* The notifier method monitorCapUpdates calls when a cap event moves a
\* vault from filled to not filled (vaultMonitor.ts 672-677).
notifyUnfilled_monitorCapUpdates(vault, currentSupply, prevCap, prevFilled) ==
  notifyNewVault(vault, FALSE, prevCap, prevFilled)

\* The for loop over the cap events of one vault, from event i on.  vault
\* is the record read by getAllVaults before the loop over the vaults.
RECURSIVE capEventsLoop(_, _, _, _, _, _)
capEventsLoop(events, i, r, vault, fl, k) ==
  IF i > Len(events) THEN [r EXCEPT !.oc = Append(@, "done")]
  ELSE IF fl.at = i /\ fl.kind = "read"
    THEN [r EXCEPT !.oc = Append(@, "readFailed")]
  ELSE
    LET newCap        == events[i].cap
        oldCap        == vault.totalSupplyCap
        currentSupply == totalSupplyOf(vault.address)
        wasFilled     == vault.isFilled
        isNowFilled   == isVaultFilled(currentSupply, newCap)
        prevCap       == CapIn(r.c, vault.address)
        prevFilled    == FilledIn(r.c, vault.address)
        c1 == updateVault(r.c, vault.address,
                          [totalSupplyCap       |-> newCap,
                           lastKnownTotalSupply |-> currentSupply,
                           isFilled             |-> isNowFilled,
                           lastCheckedBlock     |-> events[i].blockNumber], k)
        shown == [vault EXCEPT !.totalSupplyCap = newCap,
                               !.lastKnownTotalSupply = currentSupply]
        out1 == Append(r.out, notifyCapRaised(shown, oldCap, newCap, currentSupply,
                                              prevCap, prevFilled))
        out2 == IF wasFilled /\ ~isNowFilled
                  THEN Append(out1, notifyUnfilled_monitorCapUpdates(
                                      [shown EXCEPT !.isFilled = FALSE],
                                      currentSupply, prevCap, prevFilled))
                  ELSE out1
    IN
    IF fl.at = i /\ fl.kind = "notify"
      THEN [r EXCEPT !.c = c1, !.inv = TRUE, !.out = out1,
                     !.oc = Append(@, "notifyFailed")]
      ELSE capEventsLoop(events, i + 1, [r EXCEPT !.c = c1, !.inv = TRUE, !.out = out2],
                         vault, fl, k)

\* The loop over the vaults of monitorCapUpdates, from vault j on.  fls[j]
\* says where the calls made for vault j fail.  An expired vault returns
\* from the function.
RECURSIVE capVaultsLoop(_, _, _, _, _, _, _)
capVaultsLoop(vaults, j, r, fromB, toB, fls, k) ==
  IF j > Len(vaults) THEN r
  ELSE
    LET vault       == vaults[j]
        events      == queryFilter("cap", vault.address, fromB, toB)
        latestFTime == ftime
        isExpired   == isExpired_monitorCapUpdates(latestFTime, vault.maturity)
    IN
    IF fls[j].at = 0
      THEN capVaultsLoop(vaults, j + 1, [r EXCEPT !.oc = Append(@, "readFailed")],
                         fromB, toB, fls, k)
    ELSE IF isExpired
      THEN [r EXCEPT !.oc = Append(@, "expired")]
    ELSE capVaultsLoop(vaults, j + 1,
                       capEventsLoop(events, 1, r, vault, fls[j], k),
                       fromB, toB, fls, k)

\* VaultMonitor.monitorCapUpdates
monitorCapUpdates(c, fromB, toB, fls, k) ==
  LET vaults == getAllVaults(c, k)
  IN  capVaultsLoop(vaults, 1, [c |-> tick(c), out |-> << >>, oc |-> << >>, inv |-> FALSE],
                    fromB, toB, fls, k)

\* One failure position for every vault of the store.
PadFails(fls) ==
  [j \in 1..Cardinality(VaultIds) |-> IF j \in DOMAIN fls THEN fls[j] ELSE NoFail]

\* await this.monitorCapUpdates(fromBlock, currentBlock)
MonitorCapUpdates(KS, kinds) ==
  /\ pc = "capUpdates"
  /\ \E fls \in [1..Len(Stored.vaults) -> FailSet(kinds)], k \in KS :
       LET r == monitorCapUpdates(Ctx(file), fromBlock, toBlock, PadFails(fls), k)
       IN  /\ file' = r.c.file
           /\ invalidateLiveVaultsCache(r.inv)
           /\ sent' = r.out
           /\ created' = Bump(r.out)
           /\ raised' = BumpRaised(r.out)
           /\ last' = [op |-> "monitorCapUpdates", oc |-> r.oc]
  /\ pc' = "sweep"
  /\ UNCHANGED <<chainVars, fromBlock, toBlock, lastStatusCheckBlock, isRunning,
                 firstSeen, afterStop, fnVars>>

\* ------------------------------------------------------ checkVaultStatus
\* !vault.f on an optional field of a VaultState.
Missing(vault, f) == f \notin DOMAIN vault

\* The token-symbol backfill of checkVaultStatus (vaultMonitor.ts 712-719).
backfillTokenSymbol(c, vault, tokenSymbol, k) ==
  IF Missing(vault, "depositTokenSymbol") /\ tokenSymbol # ""
    THEN updateVault(c, vault.address, [depositTokenSymbol |-> tokenSymbol], k)
    ELSE c

\* fetchDepositTokenInfo and fetchSelfAcc of the later tracker: the token's
\* symbol and decimals, the vault's account id, or null (empty) on failure.
fetchDepositTokenInfo(marketAddress, ok) ==
  IF ok THEN [symbol |-> "USDT", decimals |-> 6] ELSE [symbol |-> "", decimals |-> 0]
fetchSelfAcc(ammAddress, ok) == IF ok THEN "0xacc" ELSE ""

\* The updates the later tracker's checkVaultStatus collects for the token
\* fields and the account id that a vault lacks (part_003 829-848).  The
\* token is looked up only when the symbol is missing.
tokenUpdates(vault, tokenOk, accOk) ==
  LET tokenInfo == IF Missing(vault, "depositTokenSymbol")
                     THEN fetchDepositTokenInfo(vault.marketAddress, tokenOk)
                     ELSE [symbol |-> "", decimals |-> 0]
      selfAcc   == IF Missing(vault, "selfAcc")
                     THEN fetchSelfAcc(vault.address, accOk) ELSE ""
      fields    == {f \in {"depositTokenSymbol"} :
                      tokenInfo.symbol # "" /\ Missing(vault, f)}
                   \cup {f \in {"depositTokenDecimals"} :
                      tokenInfo.symbol # "" /\ Missing(vault, f)}
                   \cup {f \in {"selfAcc"} : selfAcc # "" /\ Missing(vault, f)}
  IN  [f \in fields |-> CASE f = "depositTokenSymbol"   -> tokenInfo.symbol
                           [] f = "depositTokenDecimals" -> tokenInfo.decimals
                           [] OTHER                      -> selfAcc]

\* if (Object.keys(updates).length > 0) updateVault(...) (part_003 849-851)
backfillTokenInfo(c, vault, tokenOk, accOk, k) ==
  LET updates == tokenUpdates(vault, tokenOk, accOk)
  IN  IF DOMAIN updates # {} THEN updateVault(c, vault.address, updates, k) ELSE c

\* A status inspection that reports a cap only when it went up.
capChanged_raisedOnly(totalSupplyCap, storedCap) == totalSupplyCap > storedCap

\* if (totalSupplyCap !== vault.totalSupplyCap) (vaultMonitor.ts 731)
capChanged_checkVaultStatus(totalSupplyCap, storedCap) == totalSupplyCap # storedCap

\* A status inspection for which a vault expires only after its maturity.
isExpired_checkVaultStatus_after(latestFTime, maturity) == latestFTime > maturity

\* const isExpired = latestFTime >= vault.maturity (vaultMonitor.ts 705)
isExpired_checkVaultStatus(latestFTime, maturity) == latestFTime >= maturity

\* A status inspection that stores the cap and the supply it read and
\* leaves the stored fill flag as it was.
statusUpdates_noFlag(totalSupplyCap, totalSupply, isNowFilled) ==
  [totalSupplyCap       |-> totalSupplyCap,
   lastKnownTotalSupply |-> totalSupply]

\* The updates checkVaultStatus stores (vaultMonitor.ts 769-773).
statusUpdates(totalSupplyCap, totalSupply, isNowFilled) ==
  [totalSupplyCap       |-> totalSupplyCap,
   lastKnownTotalSupply |-> totalSupply,
   isFilled             |-> isNowFilled]

\* An inspection that reports the vault as filled without a successful
\* read of the chain.
checkVaultStatus_unread(r, vault, fl, k) ==
  [r EXCEPT !.out = Append(@, notifyVaultFilled(vault, 0, FALSE)),
            !.oc  = Append(@, "readFailed")]

\* VaultMonitor.checkVaultStatus(vault); every failure is caught inside.
checkVaultStatus(r, vault, fl, k) ==
  LET latestFTime    == ftime
      isExpired      == isExpired_checkVaultStatus(latestFTime, vault.maturity)
      totalSupply    == totalSupplyOf(vault.address)
      totalSupplyCap == totalSupplyCapOf(vault.address)
      wasFilled      == vault.isFilled
      isNowFilled    == isVaultFilled(totalSupply, totalSupplyCap)
      prevCap        == CapIn(r.c, vault.address)
      prevFilled     == FilledIn(r.c, vault.address)
      shown == [vault EXCEPT !.totalSupplyCap = totalSupplyCap,
                             !.lastKnownTotalSupply = totalSupply]
      capChanged == capChanged_checkVaultStatus(totalSupplyCap, vault.totalSupplyCap)
      out1 == IF capChanged
                THEN Append(r.out, notifyCapRaised(shown, vault.totalSupplyCap,
                                     totalSupplyCap, totalSupply, prevCap, prevFilled))
                ELSE r.out
      out2 == IF wasFilled # isNowFilled
                THEN IF isNowFilled
                       THEN Append(out1, notifyVaultFilled(
                                     [shown EXCEPT !.isFilled = TRUE], prevCap, prevFilled))
                     ELSE IF wasFilled
                       THEN Append(out1, notifyVaultAvailable(
                                     [shown EXCEPT !.isFilled = FALSE], totalSupply,
                                     prevCap, prevFilled))
                     ELSE out1
                ELSE out1
      c0 == backfillTokenSymbol(r.c, vault,
                                fetchDepositTokenSymbol(vault.marketAddress, TRUE), k)
      c1 == updateVault(c0, vault.address,
                        statusUpdates(totalSupplyCap, totalSupply, isNowFilled), k)
  IN
  IF fl.at = 0 THEN [r EXCEPT !.oc = Append(@, "readFailed")]
  ELSE IF isExpired THEN [r EXCEPT !.oc = Append(@, "expired")]
  ELSE IF fl.kind = "notify" /\ fl.at # NoAbort /\ out2 # r.out
    THEN [r EXCEPT !.inv = TRUE, !.out = Append(r.out, out2[Len(r.out) + 1]),
                   !.oc = Append(@, "notifyFailed")]
  ELSE [r EXCEPT !.c = c1, !.inv = @ \/ capChanged \/ wasFilled # isNowFilled,
                 !.out = out2, !.oc = Append(@, "inspected")]

RECURSIVE statusLoop(_, _, _, _, _)
statusLoop(vaults, j, r, fls, k) ==
  IF j > Len(vaults) THEN r
  ELSE statusLoop(vaults, j + 1, checkVaultStatus(r, vaults[j], fls[j], k), fls, k)

\* const BATCH_SIZE = 5 (vaultMonitor.ts 688)
BATCH_SIZE == 5

\* The orders in which the inspections of a sweep over n vaults can reach
\* their writes: Promise.all starts the inspections of a batch together and
\* each goes on when its own reads settle; a batch is awaited before the
\* next one starts.  order[p] is the vault whose writes come p-th.
Orders(n) ==
  {o \in [1..n -> 1..n] :
     /\ \A p, q \in 1..n : o[p] = o[q] => p = q
     /\ \A p, q \in 1..n :
          ((o[p] - 1) \div BATCH_SIZE) < ((o[q] - 1) \div BATCH_SIZE) => p < q}

\* The inspections of a sweep, from the p-th to write on.
RECURSIVE statusOrdered(_, _, _, _, _, _)
statusOrdered(vaults, order, p, r, fls, k) ==
  IF p > Len(order) THEN r
  ELSE statusOrdered(vaults, order, p + 1,
                     checkVaultStatus(r, vaults[order[p]], fls[order[p]], k), fls, k)

\* VaultMonitor.checkAllVaultStatuses; oc[p] is the outcome of the
\* inspection that wrote p-th.
checkAllVaultStatuses(c, fls, k, order) ==
  LET allVaults == getAllVaults(c, k)
  IN  statusOrdered(allVaults, order, 1,
                    [c |-> tick(c), out |-> << >>, oc |-> << >>, inv |-> FALSE],
                    fls, k)

\* The outcomes of a sweep by vault: byVault[j] is the outcome of the j-th
\* vault of the store.
ByVault(oc, order) ==
  [j \in 1..Len(order) |-> oc[CHOOSE p \in 1..Len(order) : order[p] = j]]

\* The periodic sweep of a loop iteration (vaultMonitor.ts 525-529).
PeriodicCheck(KS, kinds) ==
  /\ pc = "sweep"
  /\ IF toBlock - lastStatusCheckBlock >= STATUS_CHECK_INTERVAL_BLOCKS
       THEN /\ \E fls \in [1..Len(Stored.vaults) -> FailSet(kinds)], k \in KS,
                    order \in Orders(Len(Stored.vaults)) :
                 LET r == checkAllVaultStatuses(Ctx(file), PadFails(fls), k, order)
                 IN  /\ file' = r.c.file
                     /\ invalidateLiveVaultsCache(r.inv)
                     /\ sent' = r.out
                     /\ created' = Bump(r.out)
                     /\ raised' = BumpRaised(r.out)
                     /\ last' = [op |-> "checkAllVaultStatuses",
                                 oc |-> ByVault(r.oc, order)]
            /\ lastStatusCheckBlock' = toBlock
       ELSE /\ UNCHANGED <<file, created, raised, lastStatusCheckBlock, cacheVars>>
            /\ sent' = << >>
            /\ last' = [op |-> "noSweep"]
  /\ pc' = "advance"
  /\ UNCHANGED <<chainVars, fromBlock, toBlock, isRunning, firstSeen, afterStop, fnVars>>

\* -------------------------------------------------------------- startup
Max(a, b) == IF a > b THEN a ELSE b

\* The for loop of backfillVaults, from event i on: a failing vault is
\* counted and skipped, nothing is notified.  bad holds the events whose
\* contract reads fail.
RECURSIVE backfillLoop(_, _, _, _, _)
backfillLoop(events, i, r, bad, k) ==
  IF i > Len(events) THEN r
  ELSE
    LET ammAddress == events[i].amm
        existing   == getVault(r.c, ammAddress, k)
        c1         == tick(r.c)
        totalSupplyCap == totalSupplyCapOf(ammAddress)
        totalSupply    == totalSupplyOf(ammAddress)
        marketAddress  == MARKET(ammAddress)
        depositTokenSymbol == fetchDepositTokenSymbol(marketAddress, TRUE)
        vault == OrUndefined(
                   [address              |-> ammAddress,
                    name                 |-> nameOf(ammAddress),
                    symbol               |-> symbolOf(ammAddress),
                    totalSupplyCap       |-> totalSupplyCap,
                    lastKnownTotalSupply |-> totalSupply,
                    isFilled             |-> isVaultFilled(totalSupply, totalSupplyCap),
                    maturity             |-> MATURITY(ammAddress),
                    marketAddress        |-> marketAddress,
                    lastCheckedBlock     |-> events[i].blockNumber,
                    createdAt            |-> now],
                   "depositTokenSymbol", depositTokenSymbol)
    IN
    IF existing # {}
      THEN backfillLoop(events, i + 1,
                        [r EXCEPT !.c = c1, !.oc = Append(@, "known")], bad, k)
    ELSE IF i \in bad
      THEN backfillLoop(events, i + 1,
                        [r EXCEPT !.c = c1, !.oc = Append(@, "readFailed")], bad, k)
    ELSE backfillLoop(events, i + 1,
                      [r EXCEPT !.c = addVault(c1, vault, k), !.oc = Append(@, "added")],
                      bad, k)

\* VaultMonitor.backfillVaults: ok is false when reading the height or the
\* creation log fails, which ends the backfill.
backfillEvents(currentBlock) ==
  LET fromB == IF START_BLOCK # 0 THEN START_BLOCK
               ELSE Max(0, currentBlock - lookbackBlocks)
  IN  Fmt(queryFilter("create", "*", fromB, currentBlock), TRUE)

backfillVaults(c, ok, currentBlock, bad, k) ==
  LET events == backfillEvents(currentBlock)
  IN  IF ok THEN backfillLoop(events, 1, [c |-> c, out |-> << >>, oc |-> << >>, inv |-> FALSE], bad, k)
      ELSE [c |-> c, out |-> << >>, oc |-> << >>, inv |-> FALSE]

shouldBackfill_always(vaults) == Len(vaults) >= 0

\* if (vaults.length === 0)
shouldBackfill(vaults) == Len(vaults) = 0

\* start() up to the backfill of loadExistingVaults (vaultMonitor.ts 288-298).
StartBackfill(KS) ==
  /\ pc = "init"
  /\ \E ok \in BOOLEAN, currentBlock \in Heights,
        bad \in SUBSET (1..Len(queryFilter("create", "*", 0, height))), k \in KS :
       LET c0     == tick(Ctx(file))                 \* const state = loadState()
           vaults == getAllVaults(c0, k)
           c1     == tick(c0)
           r      == IF shouldBackfill(vaults)
                       THEN backfillVaults(c1, ok, currentBlock, bad, k)
                       ELSE [c |-> c1, out |-> << >>, oc |-> << >>, inv |-> FALSE]
       IN  /\ file' = r.c.file
           /\ sent' = r.out
           /\ firstSeen' = Seen(backfillEvents(currentBlock), r.oc, "backfill")
           /\ last' = [op |-> "loadExistingVaults", backfill |-> shouldBackfill(vaults),
                       oc |-> r.oc]
  /\ pc' = "baseline"
  /\ UNCHANGED <<chainVars, fromBlock, toBlock, lastStatusCheckBlock, isRunning,
                 created, raised, afterStop, fnVars, cacheVars>>

\* The inspection of every stored vault that ends loadExistingVaults
\* (vaultMonitor.ts 300-304), then this.isRunning = true.
Baseline(KS, kinds) ==
  /\ pc = "baseline"
  /\ \E fls \in [1..Len(Stored.vaults) -> FailSet(kinds)], k \in KS :
       LET updatedVaults == getAllVaults(Ctx(file), k)
           r == statusLoop(updatedVaults, 1,
                           [c |-> tick(Ctx(file)), out |-> << >>, oc |-> << >>, inv |-> FALSE],
                           PadFails(fls), k)
       IN  /\ file' = r.c.file
           /\ invalidateLiveVaultsCache(r.inv)
           /\ sent' = r.out
           /\ created' = Bump(r.out)
           /\ raised' = BumpRaised(r.out)
           /\ last' = [op |-> "baseline", oc |-> r.oc]
  /\ isRunning' = TRUE
  /\ pc' = "loop"
  /\ UNCHANGED <<chainVars, fromBlock, toBlock, lastStatusCheckBlock, firstSeen,
                 afterStop, fnVars>>

\* The process dies and is started again (pm2 restart, deploy.sh): what it
\* held in memory is gone, the state file stays.
Crash(where) ==
  /\ pc \in where
  /\ pc' = "init"
  /\ fromBlock' = 0
  /\ toBlock' = 0
  /\ lastStatusCheckBlock' = 0
  /\ isRunning' = FALSE
  /\ sent' = << >>
  /\ last' = [op |-> "restart"]
  /\ invalidateLiveVaultsCache(TRUE)       \* a new VaultMonitor: fields 22-23
  /\ UNCHANGED <<chainVars, file, histVars, fnVars>>

\* ----------------------------------------------------------- live vaults
\* const isExpired = latestFTime >= vault.maturity (vaultMonitor.ts 196)
isExpired_getLiveVaults(latestFTime, maturity) == latestFTime >= maturity

\* Array.prototype.sort((a, b) => a.utilization - b.utilization): stable.
RECURSIVE InsertSorted(_, _)
InsertSorted(sorted, x) ==
  IF sorted = << >> THEN <<x>>
  ELSE IF x.utilization < Head(sorted).utilization THEN <<x>> \o sorted
  ELSE <<Head(sorted)>> \o InsertSorted(Tail(sorted), x)

\* A sort that leaves the list in the order of the store.
SortByUtilization_none(list) == list

RECURSIVE SortByUtilization(_)
SortByUtilization(list) ==
  IF list = << >> THEN << >>
  ELSE InsertSorted(SortByUtilization(SubSeq(list, 1, Len(list) - 1)), list[Len(list)])

\* A fill test that trusts the flag of the stored record.
isFilled_getLiveVaults_stored(vault, currentSupply, totalSupplyCap) == vault.isFilled

\* if (this.isVaultFilled(currentSupply, totalSupplyCap)) continue
\* (vaultMonitor.ts 210): the stored record takes no part.
isFilled_getLiveVaults(vault, currentSupply, totalSupplyCap) ==
  isVaultFilled(currentSupply, totalSupplyCap)

\* The for loop of getLiveVaults, from vault j on.  utilization is kept in
\* basis points (the code divides them by 100 for display).
RECURSIVE liveLoop(_, _, _, _)
liveLoop(allVaults, j, liveVaults, bad) ==
  IF j > Len(allVaults) THEN liveVaults
  ELSE
    LET vault          == allVaults[j]
        latestFTime    == ftime
        isExpired      == isExpired_getLiveVaults(latestFTime, vault.maturity)
        currentSupply  == totalSupplyOf(vault.address)
        totalSupplyCap == totalSupplyCapOf(vault.address)
        utilization    == IF totalSupplyCap > 0
                            THEN (currentSupply * 10000) \div totalSupplyCap ELSE 0
        entry == [address |-> vault.address, utilization |-> utilization,
                  lastKnownTotalSupply |-> currentSupply,
                  totalSupplyCap |-> totalSupplyCap]
    IN
    IF j \in bad \/ isExpired \/ isFilled_getLiveVaults(vault, currentSupply, totalSupplyCap)
      THEN liveLoop(allVaults, j + 1, liveVaults, bad)
      ELSE liveLoop(allVaults, j + 1, Append(liveVaults, entry), bad)

\* VaultMonitor.getLiveVaults
getLiveVaults(c, bad, k) ==
  SortByUtilization(liveLoop(getAllVaults(c, k), 1, << >>, bad))

\* A query that writes the supplies it read back to the store.
getLiveVaults_store_refresh(c, bad, k) ==
  LET allVaults == getAllVaults(c, k)
  IN  IF Len(allVaults) = 0 THEN tick(c)
      ELSE updateVault(tick(c), allVaults[1].address,
                       [lastKnownTotalSupply |-> totalSupplyOf(allVaults[1].address)], k)

\* The store context after getLiveVaults: getAllVaults reads the file, and
\* nothing in the for loop or the sort writes it (vaultMonitor.ts 186-247).
getLiveVaults_store(c, bad, k) == tick(c)

\* private readonly LIVE_VAULTS_CACHE_TTL_MS = 30000 (vaultMonitor.ts 24)
LIVE_VAULTS_CACHE_TTL_MS == 30000

\* The texts of the handler: the list (formatLiveVaultsList), the empty
\* answer and the progress line.  A text is kept as its kind and the list
\* it shows.
formatLiveVaultsList(liveVaults) == [text |-> "list", vaults |-> liveVaults]
emptyMessage    == [text |-> "empty", vaults |-> << >>]
fetchingMessage == [text |-> "fetching", vaults |-> << >>]

\* bot.sendMessage(chatId, message)
sendMessage(message) ==
  [kind |-> "Message", address |-> "", isFilled |-> FALSE,
   text |-> message.text, vaults |-> message.vaults]

\* A cache test that takes an answer of age TTL for fresh.
cacheFresh_inclusive(message, cacheAge) ==
  message # NoMessage /\ cacheAge <= LIVE_VAULTS_CACHE_TTL_MS

\* if (this.cachedLiveVaultsMessage && cacheAge < TTL) (vaultMonitor.ts 101)
cacheFresh(message, cacheAge) ==
  message # NoMessage /\ cacheAge < LIVE_VAULTS_CACHE_TTL_MS

\* VaultMonitor.handleLiveVaultsCommand: a /liveVaults (or /start) command
\* arrives while the monitor is at one of the positions pcs.
HandleLiveVaultsCommand(KS, pcs) ==
  /\ pc \in pcs
  /\ LET cacheAge == now - cachedLiveVaultsTimestamp
     IN  IF cacheFresh(cachedLiveVaultsMessage, cacheAge)
           THEN /\ sent' = <<sendMessage(cachedLiveVaultsMessage)>>
                /\ last' = [op |-> "cachedLiveVaults", at |-> now]
                /\ UNCHANGED <<file, cacheVars>>
           ELSE \E bad \in SUBSET (1..Len(Stored.vaults)), k \in KS :
                  LET liveVaults == getLiveVaults(Ctx(file), bad, k)
                      message    == IF Len(liveVaults) = 0 THEN emptyMessage
                                    ELSE formatLiveVaultsList(liveVaults)
                  IN  /\ file' = getLiveVaults_store(Ctx(file), bad, k).file
                      /\ cachedLiveVaultsMessage' = message
                      /\ cachedLiveVaultsTimestamp' = now
                      /\ stale' = FALSE
                      /\ UNCHANGED <<now, pending>>
                      /\ sent' = <<sendMessage(fetchingMessage), sendMessage(message)>>
                      /\ last' = [op |-> "getLiveVaults", bad |-> bad,
                                  result |-> liveVaults, at |-> now]
  /\ UNCHANGED <<chainVars, procVars, histVars, fnVars>>

\* ------------------------------------------------------------ behaviours
Init ==
  /\ log = << >>
  /\ supply = [v \in VaultIds |-> 500]
  /\ ftime = 0
  /\ file = NoFile
  /\ pc = "init"
  /\ fromBlock = 0
  /\ toBlock = 0
  /\ lastStatusCheckBlock = 0
  /\ isRunning = FALSE
  /\ sent = << >>
  /\ last = [op |-> "Init"]
  /\ created = [v \in VaultIds |-> 0]
  /\ firstSeen = [v \in VaultIds |-> "none"]
  /\ arg = [supply |-> 0, cap |-> 0]
  /\ res = [done |-> FALSE, value |-> FALSE]
  /\ cachedLiveVaultsMessage = NoMessage
  /\ cachedLiveVaultsTimestamp = 0
  /\ now = Epoch
  /\ pending = NoRequest
  /\ stale = FALSE
  /\ raised = [v \in {} |-> 0]
  /\ afterStop = -1

Reads == {"read"}
Next ==
  \/ NewBlock
  \/ SupplyChange
  \/ TimeAdvance
  \/ StartBackfill({0})
  \/ Baseline({0}, Reads)
  \/ IterBegin({0})
  \/ MonitorNewVaults({0}, Reads)
  \/ MonitorCapUpdates({0}, Reads)
  \/ PeriodicCheck({0}, Reads)
  \/ Advance({0})
  \/ HandleLiveVaultsCommand({0}, {"loop"})
  \/ Crash({"loop"})

\* The monitor with an unreliable chain reader, a reliable disk and a
\* notifier that does not throw (the Telegram notifier).
Spec == Init /\ [][Next]_vars


\* ------------------------------------------------------- isVaultFilled
\* The supplies and caps isVaultFilled is applied to.
FilledSupplies == {0, 1, 97, 98, 99, 100, 979, 980, 981, 1000, 1960, 2000}
FilledCaps     == {0, 1, 3, 100, 1000, 2000}

InitFilled ==
  /\ Init!1 /\ Init!2 /\ Init!3 /\ Init!4 /\ Init!5 /\ Init!6 /\ Init!7
  /\ Init!8 /\ Init!9 /\ Init!10 /\ Init!11 /\ Init!12 /\ Init!13
  /\ Init!16 /\ Init!17 /\ Init!18 /\ Init!19 /\ Init!20 /\ Init!21 /\ Init!22
  /\ arg \in [supply : FilledSupplies, cap : FilledCaps]
  /\ res = [done |-> FALSE, value |-> FALSE]

ApplyIsVaultFilled ==
  /\ ~res.done
  /\ res' = [done |-> TRUE, value |-> isVaultFilled(arg.supply, arg.cap)]
  /\ UNCHANGED <<chainVars, file, procVars, sent, last, histVars, arg, cacheVars>>

\* isVaultFilled applied to every supply and cap of the sets above.
SpecFilled == InitFilled /\ [][ApplyIsVaultFilled]_vars

\* The reference predicate of the specification, without the division:
\* for C > 0, floor(S*10000/C) >= T iff S*10000 >= T*C.
Filled(S, C) == C # 0 /\ S * 10000 >= (FILLED_THRESHOLD_PERCENT * 100) * C

\* C9: isVaultFilled(S, C) equals the reference predicate for every supply
\* and cap: false when C = 0, otherwise true iff floor(S*10000/C) >=
\* floor(threshold*100); with threshold 98 and C = 1000, S = 980 is filled
\* and S = 979 is not.
Thm_C9 ==
  res.done =>
    /\ res.value = Filled(arg.supply, arg.cap)
    /\ (arg.cap = 0 => res.value = FALSE)
    /\ (arg.cap = 1000 /\ arg.supply = 980 => res.value = TRUE)
    /\ (arg.cap = 1000 /\ arg.supply = 979 => res.value = FALSE)

Wit_C9 == res.done /\ arg.cap = 1000 /\ arg.supply = 980 /\ res.value = TRUE


\* The monitor with a disk that fails: in new-vault detection and in the
\* advance of lastProcessedBlock, one file operation of the step, the
\* first to the MaxIO-th, may throw inside the state manager (0: none
\* does).  The chain grows; supplies and the time index stand still.
MaxIO == 2
Faults == 0..MaxIO
NextF ==
  \/ NewBlock
  \/ StartBackfill({0})
  \/ Baseline({0}, Reads)
  \/ IterBegin({0})
  \/ MonitorNewVaults(Faults, Reads)
  \/ MonitorCapUpdates({0}, Reads)
  \/ PeriodicCheck({0}, Reads)
  \/ Advance(Faults)

SpecF == Init /\ [][NextF]_vars

\* ------------------------------------------------- the command handler
\* The record the tracker stores for vault v created in block blk, with the
\* supply sup it read last (the cap is the one of the creation event).
TrackedVault(v, blk, sup) ==
  OrUndefined(
    [address              |-> Checksum(v),
     name                 |-> nameOf(v),
     symbol               |-> symbolOf(v),
     totalSupplyCap       |-> InitialCap,
     lastKnownTotalSupply |-> sup,
     isFilled             |-> isVaultFilled(sup, InitialCap),
     maturity             |-> MATURITY(v),
     marketAddress        |-> MARKET(v),
     lastCheckedBlock     |-> blk,
     createdAt            |-> Epoch],
    "depositTokenSymbol", fetchDepositTokenSymbol(MARKET(v), TRUE))

\* A running monitor that has processed the creation of both vaults; the
\* supplies have moved since it stored them.
InitLive ==
  /\ log = <<[type |-> "create", amm |-> "0xa1", cap |-> InitialCap],
             [type |-> "create", amm |-> "0xb2", cap |-> InitialCap]>>
  /\ supply \in [VaultIds -> SupplyValues]
  /\ ftime \in 0..MaxFTime
  /\ \E s1 \in SupplyValues, s2 \in SupplyValues :
       file = saveState(Ctx(NoFile),
                        [lastProcessedBlock |-> BaseHeight + 2,
                         vaults |-> <<[key |-> "0xa1",
                                       v |-> TrackedVault("0xa1", BaseHeight + 1, s1)],
                                      [key |-> "0xb2",
                                       v |-> TrackedVault("0xb2", BaseHeight + 2, s2)]>>],
                        0).file
  /\ pc = "loop"
  /\ fromBlock = 0
  /\ toBlock = 0
  /\ lastStatusCheckBlock = 0
  /\ isRunning = TRUE
  /\ sent = << >>
  /\ last = [op |-> "Init"]
  /\ created = [v \in VaultIds |-> 1]
  /\ firstSeen = [v \in VaultIds |-> "event"]
  /\ Init!14 /\ Init!15 /\ Init!16 /\ Init!17 /\ Init!18
  /\ Init!19 /\ Init!20 /\ Init!21 /\ Init!22

\* Time passes: Date.now() reads later.
Tick ==
  /\ \E t \in Instants : t > now /\ now' = t
  /\ sent' = << >>
  /\ last' = [op |-> "clock"]
  /\ UNCHANGED <<chainVars, file, procVars, histVars, fnVars,
                 cachedLiveVaultsMessage, cachedLiveVaultsTimestamp, pending, stale>>

Anywhere == {"loop", "newVaults", "capUpdates", "sweep", "advance"}

NextLive ==
  \/ NewBlock
  \/ SupplyChange
  \/ TimeAdvance
  \/ Tick
  \/ IterBegin({0})
  \/ MonitorNewVaults({0}, {})
  \/ MonitorCapUpdates({0}, {})
  \/ PeriodicCheck({0}, {})
  \/ Advance({0})
  \/ HandleLiveVaultsCommand({0}, Anywhere)

\* The running monitor and the /liveVaults handler, whose commands arrive
\* between the awaited phases of the loop, with a clock.
SpecLive == InitLive /\ [][NextLive]_vars

\* ---------------------------------------------------------- the store alone
\* The VaultStates of one vault, with every subset of the optional token
\* fields populated, and the MonitorStates that hold at most that vault.
TokenFields == {"depositTokenSymbol", "depositTokenDecimals", "selfAcc"}

StoreVault(cap, sup, opt) ==
  LET base == [address              |-> Checksum("0xb2"),
               name                 |-> nameOf("0xb2"),
               symbol               |-> symbolOf("0xb2"),
               totalSupplyCap       |-> cap,
               lastKnownTotalSupply |-> sup,
               isFilled             |-> isVaultFilled(sup, cap),
               maturity             |-> MATURITY("0xb2"),
               marketAddress        |-> MARKET("0xb2"),
               lastCheckedBlock     |-> BaseHeight + 1,
               createdAt            |-> Epoch]
      info == fetchDepositTokenInfo(base.marketAddress, TRUE)
  IN  [f \in DOMAIN base \cup opt |->
         CASE f = "depositTokenSymbol"   -> info.symbol
           [] f = "depositTokenDecimals" -> info.decimals
           [] f = "selfAcc"              -> fetchSelfAcc(base.address, TRUE)
           [] OTHER                      -> base[f]]

StoreStates ==
  {[lastProcessedBlock |-> b, vaults |-> vs] :
     b \in {START_BLOCK, BaseHeight + 1},
     vs \in {<< >>} \cup
            {<<[key |-> "0xb2", v |-> StoreVault(cap, sup, opt)]>> :
               cap \in CapValues, sup \in SupplyValues, opt \in SUBSET TokenFields}}

InitStore ==
  /\ Init!1 /\ Init!2 /\ Init!3 /\ Init!4 /\ Init!5 /\ Init!6 /\ Init!7
  /\ Init!8 /\ Init!9 /\ Init!10 /\ Init!11 /\ Init!12 /\ Init!13
  /\ Init!16 /\ Init!17 /\ Init!18 /\ Init!19 /\ Init!20 /\ Init!21 /\ Init!22
  /\ arg \in [state : StoreStates]
  /\ res = [done |-> FALSE, value |-> DefaultState]

\* loadState() after saveState(s).
RoundTrip ==
  /\ ~res.done
  /\ LET f == saveState(Ctx(file), arg.state, 0).file
     IN  /\ file' = f
         /\ res' = [done |-> TRUE, value |-> loadState(Ctx(f), 0)]
  /\ last' = [op |-> "roundTrip"]
  /\ UNCHANGED <<chainVars, procVars, sent, histVars, arg, cacheVars>>

\* The patches the tracker makes to cap, supply and fill status.
CapPatches ==
  {[totalSupplyCap |-> cap, lastKnownTotalSupply |-> sup,
    isFilled |-> isVaultFilled(sup, cap)] : cap \in CapValues, sup \in SupplyValues}

\* updateVault(address, updates) on the saved store.
PatchVault ==
  /\ res.done
  /\ \E address \in {"0xA1", "0xa1", "0xB2", "0xb2"}, updates \in CapPatches :
       /\ file' = updateVault(Ctx(file), address, updates, 0).file
       /\ last' = [op |-> "updateVault", address |-> address, updates |-> updates]
  /\ UNCHANGED <<chainVars, procVars, sent, histVars, fnVars, cacheVars>>

\* The token backfill of a status inspection on a vault of the saved store.
TokenBackfill ==
  /\ res.done
  /\ \E j \in 1..Len(Stored.vaults), tokenOk \in BOOLEAN, accOk \in BOOLEAN :
       LET vault == getAllVaults(Ctx(file), 0)[j]
       IN  /\ file' = backfillTokenInfo(Ctx(file), vault, tokenOk, accOk, 0).file
           /\ last' = [op |-> "tokenBackfill", address |-> vault.address,
                       updates |-> tokenUpdates(vault, tokenOk, accOk)]
  /\ UNCHANGED <<chainVars, procVars, sent, histVars, fnVars, cacheVars>>

NextStore == RoundTrip \/ PatchVault \/ TokenBackfill

\* The state manager alone: a valid state is saved and loaded, then patched.
SpecStore == InitStore /\ [][NextStore]_vars

\* ================================================================ claims
\* The vault addresses (lower-cased keys) of the records of a stored state.
LowerKeys(st) == {toLowerCase(st.vaults[i].key) : i \in 1..Len(st.vaults)}

\* Number of records of a stored state whose key is an address of vault v.
RecordsOf(st, v) ==
  Cardinality({i \in 1..Len(st.vaults) : toLowerCase(st.vaults[i].key) = v})

\* The record of vault v in a stored state.
RecordOf(st, v) ==
  st.vaults[CHOOSE i \in 1..Len(st.vaults) : toLowerCase(st.vaults[i].key) = v].v

\* Positions of the notifications of one kind for vault v in out.
Notes(out, kind, v) ==
  {i \in 1..Len(out) : out[i].kind = kind /\ toLowerCase(out[i].address) = v}

\* C3: processing a creation event whose vault address is already in the
\* store, under any letter case of the address, leaves exactly one record
\* for that vault and emits no VaultCreated notification; also when the
\* same event appears twice within one queried range (then the vault is
\* added and announced once).
C3_Step ==
  last'.op = "monitorNewVaults" =>
    \A i \in 1..Len(last'.oc) :
      LET v == toLowerCase(last'.events[i].amm)
      IN  /\ v \in LowerKeys(Stored) =>
               /\ Notes(sent', "VaultCreated", v) = {}
               /\ RecordsOf(Stored', v) = 1
               /\ RecordOf(Stored', v) = RecordOf(Stored, v)
          /\ Cardinality(Notes(sent', "VaultCreated", v)) <= 1
          /\ RecordsOf(Stored', v) <= 1

Thm_C3 == [][C3_Step]_vars

\* A replayed range: the second copy of an event, in lower case, met the
\* record the first copy had just added; or a checksummed address met its
\* lower-case key.
Wit_C3 ==
  /\ last.op = "monitorNewVaults"
  /\ \E i \in 1..Len(last.oc) :
       /\ last.oc[i] = "known"
       /\ last.events[i].amm # toLowerCase(last.events[i].amm)
       /\ RecordsOf(Stored, toLowerCase(last.events[i].amm)) = 1
  /\ sent = << >>

\* C4: when new-vault detection sees a creation event for an address not in
\* the store and all chain reads succeed, the record is persisted with
\* isFilled = Filled(supply, cap), and a VaultCreated notification carrying
\* that flag is emitted iff the vault is not expired; an expired vault is
\* stored without any notification.
C4_Step ==
  last'.op = "monitorNewVaults" =>
    \A i \in 1..Len(last'.oc) :
      LET v     == toLowerCase(last'.events[i].amm)
          fresh == /\ v \notin LowerKeys(Stored)
                   /\ \A j \in 1..(i - 1) : toLowerCase(last'.events[j].amm) # v
          flag  == Filled(supply[v], totalSupplyCapOf(v))
      IN  fresh /\ last'.oc[i] # "readFailed" =>
            /\ RecordsOf(Stored', v) = 1
            /\ RecordOf(Stored', v).isFilled = flag
            /\ RecordOf(Stored', v).totalSupplyCap = totalSupplyCapOf(v)
            /\ RecordOf(Stored', v).lastKnownTotalSupply = supply[v]
            /\ (Notes(sent', "VaultCreated", v) # {}) <=> (ftime < MATURITY(v))
            /\ \A n \in Notes(sent', "VaultCreated", v) : sent'[n].isFilled = flag

C7_Step ==
  last'.op \in {"checkAllVaultStatuses", "baseline"} =>
    \A j \in 1..Len(last'.oc) :
      LET stored == Stored.vaults[j].v
          v      == toLowerCase(stored.address)
          full   == Filled(supply[v], totalSupplyCapOf(v))
      IN  ftime < MATURITY(v) /\ last'.oc[j] # "readFailed" =>
            /\ (Notes(sent', "VaultFilled", v) # {}) <=> (~stored.isFilled /\ full)
            /\ (Notes(sent', "VaultAvailable", v) # {}) <=> (stored.isFilled /\ ~full)
            /\ (Notes(sent', "CapRaised", v) # {})
                 <=> (totalSupplyCapOf(v) # stored.totalSupplyCap)
            /\ Notes(sent', "VaultCreated", v) = {}

Thm_C7 == [][C7_Step]_vars

\* A sweep found a vault whose cap had been lowered so far that the vault
\* is filled: it reported the cap and the fill.
Wit_C7 ==
  /\ last.op = "checkAllVaultStatuses"
  /\ Len(last.oc) >= 1 /\ last.oc[1] = "inspected"
  /\ \E a, b \in 1..Len(sent) : sent[a].kind = "CapRaised" /\ sent[b].kind = "VaultFilled"

\* C8: once the market of a stored vault reports latestFTime >= maturity,
\* no later iteration or startup inspection emits VaultCreated, CapRaised,
\* VaultFilled or VaultAvailable for it, even if its cap is raised
\* afterwards, and its stored cap, supply and isFilled no longer change.
C8_Step ==
  LET before == Stored
      after  == Stored'
  IN  \A v \in LowerKeys(before) :
        LET old == RecordOf(before, v)
            new == RecordOf(after, v)
        IN  ftime >= old.maturity =>
              /\ \A n \in 1..Len(sent') : toLowerCase(sent'[n].address) # v
              /\ RecordsOf(after, v) = 1
              /\ new.totalSupplyCap = old.totalSupplyCap
              /\ new.lastKnownTotalSupply = old.lastKnownTotalSupply
              /\ new.isFilled = old.isFilled

Thm_C8 == [][C8_Step]_vars

\* Cap-update detection met an expired vault whose cap had been changed in
\* the queried range, and left it alone.
Wit_C8 ==
  /\ last.op = "monitorCapUpdates"
  /\ last.oc = <<"expired">>
  /\ \E v \in LowerKeys(Stored) :
       /\ ftime >= RecordOf(Stored, v).maturity
       /\ Len(queryFilter("cap", v, fromBlock, toBlock)) > 0
       /\ RecordOf(Stored, v).totalSupplyCap # totalSupplyCapOf(v)
  /\ sent = << >>

\* C10: in every place that decides expiry (new-vault detection, cap-update
\* detection, status inspection, live-vault query) a vault is treated as
\* expired iff latestFTime >= maturity, equality included.
C10_Step ==
  /\ last'.op = "monitorNewVaults" =>
       \A i \in 1..Len(last'.oc) :
         last'.oc[i] \in {"expired", "notified"} =>
           (last'.oc[i] = "expired"
              <=> ftime >= MATURITY(toLowerCase(last'.events[i].amm)))
  /\ last'.op \in {"monitorCapUpdates", "checkAllVaultStatuses", "baseline"} =>
       \A j \in 1..Len(last'.oc) :
         /\ last'.oc[j] = "expired" => ftime >= Stored.vaults[j].v.maturity
         /\ last'.oc[j] # "readFailed" /\ ftime >= Stored.vaults[j].v.maturity
              => last'.oc[j] = "expired"
  /\ last'.op = "getLiveVaults" =>
       \A j \in 1..Len(Stored.vaults) :
         LET vault  == Stored.vaults[j].v
             v      == toLowerCase(vault.address)
             listed == \E n \in 1..Len(last'.result) :
                         toLowerCase(last'.result[n].address) = v
         IN  /\ ftime >= vault.maturity => ~listed
             /\ j \notin last'.bad /\ ftime < vault.maturity
                  /\ ~Filled(supply[v], totalSupplyCapOf(v)) => listed

Thm_C10 == [][C10_Step]_vars

\* The equality case: a sweep at latestFTime = maturity skipped the vault.
Wit_C10 ==
  /\ last.op = "checkAllVaultStatuses"
  /\ Len(last.oc) >= 1 /\ last.oc[1] = "expired"
  /\ ftime = Stored.vaults[1].v.maturity
  /\ sent = << >>


\* The block of the creation event of vault v (0 when there is none).
CreatedAt(v) ==
  LET idx == {i \in 1..Len(log) : log[i].type = "create" /\ log[i].amm = v}
  IN  IF idx = {} THEN 0 ELSE BaseHeight + (CHOOSE i \in idx : TRUE)

\* C1: across any sequence of iterations, including ones with RPC failures
\* and restarts, every non-expired vault that is first observed through a
\* creation event produces exactly one VaultCreated notification: never
\* two, and never zero once the persisted lastProcessedBlock has passed the
\* block of its creation event.
Cex_C1 ==
  \A v \in VaultIds :
    firstSeen[v] = "event" =>
      /\ created[v] <= 1
      /\ pc = "loop" /\ ftime < MATURITY(v)
           /\ Stored.lastProcessedBlock >= CreatedAt(v) => created[v] = 1

\* C5: every CapRaised notification of cap-update detection carries the
\* cap of its event as newCap, the supply read from the chain as
\* currentSupply and, as oldCap, the cap that was stored immediately before
\* that event was applied; also with several cap events of one vault in
\* one queried range.
Cex_C5 ==
  last.op = "monitorCapUpdates" =>
    \A n \in 1..Len(sent) :
      sent[n].kind = "CapRaised" =>
        LET v      == toLowerCase(sent[n].address)
            ord    == Cardinality({m \in Notes(sent, "CapRaised", v) : m <= n})
            events == queryFilter("cap", v, fromBlock, toBlock)
        IN  /\ sent[n].newCap = events[ord].cap
            /\ sent[n].currentSupply = supply[v]
            /\ sent[n].oldCap = sent[n].prevCap

\* C6: when a cap event moves a non-expired vault from Filled to not
\* Filled, cap-update detection emits, in addition to CapRaised, a
\* notification of kind VaultAvailable.
Cex_C6 ==
  last.op = "monitorCapUpdates" =>
    \A n \in 1..Len(sent) :
      /\ sent[n].kind = "CapRaised"
      /\ sent[n].prevFilled
      /\ ~Filled(sent[n].currentSupply, sent[n].newCap)
      => \E m \in 1..Len(sent) : /\ sent[m].kind = "VaultAvailable"
                                 /\ sent[m].address = sent[n].address


\* C2: the persisted lastProcessedBlock never decreases, including across
\* iterations in which RPC calls failed, a state load or save failed, or
\* the chain reader returned a lower height than before.
Cex_C2 == [][Stored'.lastProcessedBlock >= Stored.lastProcessedBlock]_vars


\* The optional token fields of the vault record of v in a stored state.
TokenOf(st, v) ==
  [f \in TokenFields \cap DOMAIN RecordOf(st, v) |-> RecordOf(st, v)[f]]

\* C11: for every valid MonitorState s, loadState after saveState(s)
\* returns a state equal to s: the same lastProcessedBlock and every field
\* of every vault unchanged, the optional deposit-token symbol, deposit-token
\* decimals and account id included.
Cex_C11 == res.done => res.value = arg.state

\* C18: updateVault called with an address that has no record in the store
\* creates no record and leaves the persisted state, lastProcessedBlock
\* included, unchanged.
C18_Step ==
  last'.op = "updateVault" /\ toLowerCase(last'.address) \notin LowerKeys(Stored) =>
    /\ file' = file
    /\ LowerKeys(Stored') = LowerKeys(Stored)
    /\ Stored'.lastProcessedBlock = Stored.lastProcessedBlock

Thm_C18 == [][C18_Step]_vars

\* A patch for an address the store does not hold met a store that holds
\* another vault and a lastProcessedBlock, and left both alone.
Wit_C18 ==
  /\ last.op = "updateVault"
  /\ toLowerCase(last.address) \notin LowerKeys(Stored)
  /\ LowerKeys(Stored) = {"0xb2"}
  /\ Stored.lastProcessedBlock = BaseHeight + 1

\* C20: once a vault's deposit-token symbol, deposit-token decimals or
\* account id is populated in the store, no later operation (status
\* inspection, cap update, save and reload) changes or clears it: what a
\* token backfill writes is in the store afterwards, and what is in the
\* store stays.
C20_Step ==
  /\ \A v \in LowerKeys(Stored) :
       \A f \in DOMAIN TokenOf(Stored, v) :
         /\ f \in DOMAIN TokenOf(Stored', v)
         /\ TokenOf(Stored', v)[f] = TokenOf(Stored, v)[f]
  /\ last'.op = "tokenBackfill" =>
       \A f \in DOMAIN last'.updates :
         /\ f \in DOMAIN TokenOf(Stored', toLowerCase(last'.address))
         /\ TokenOf(Stored', toLowerCase(last'.address))[f] = last'.updates[f]

Cex_C20 == [][C20_Step]_vars


\* C12: in every persisted snapshot with lastProcessedBlock = b, every
\* vault record the tracker created while processing blocks up to b is
\* present; no write order and no interrupted or failed load or save leaves
\* the height advanced without the records that justified it.
Cex_C12 ==
  \A v \in VaultIds :
    created[v] >= 1 /\ CreatedAt(v) > 0 /\ CreatedAt(v) <= Stored.lastProcessedBlock
      => v \in LowerKeys(Stored)

\* C13: in every reachable store state, the stored isFilled of every vault
\* record equals Filled(stored lastKnownTotalSupply, stored totalSupplyCap).
Thm_C13 ==
  \A i \in 1..Len(Stored.vaults) :
    Stored.vaults[i].v.isFilled
      <=> Filled(Stored.vaults[i].v.lastKnownTotalSupply, Stored.vaults[i].v.totalSupplyCap)

\* A status inspection found the vault filled, said so, and the store
\* holds the flag with the supply and cap that make it true.
Wit_C13 ==
  /\ last.op = "checkAllVaultStatuses"
  /\ \E n \in 1..Len(sent) : sent[n].kind = "VaultFilled"
  /\ \E i \in 1..Len(Stored.vaults) :
       /\ Stored.vaults[i].v.isFilled
       /\ Filled(Stored.vaults[i].v.lastKnownTotalSupply, Stored.vaults[i].v.totalSupplyCap)

\* C19: no tracker, store or query operation removes a vault record: the
\* set of stored vault addresses only grows, and expired vaults stay.
Cex_C19 == [][LowerKeys(Stored) \subseteq LowerKeys(Stored')]_vars


\* Whether a list of live vaults shows vault v.
Listed(liveVaults, v) ==
  \E n \in 1..Len(liveVaults) : toLowerCase(liveVaults[n].address) = v

\* C14: the result of a list-live-vaults query contains a stored vault whose
\* chain reads succeed exactly when, by the latestFTime, supply and cap read
\* from the chain during that query, the vault is not expired and not
\* Filled; the stored cap, supply and isFilled play no part.
C14_Step ==
  last'.op = "getLiveVaults" =>
    \A j \in 1..Len(Stored.vaults) :
      LET vault == Stored.vaults[j].v
          v     == toLowerCase(vault.address)
      IN  j \notin last'.bad =>
            (Listed(last'.result, v)
               <=> /\ ftime < MATURITY(v)
                   /\ ~Filled(supply[v], totalSupplyCapOf(v)))

Thm_C14 == [][C14_Step]_vars

\* A query listed a vault that the store holds as filled, and left out a
\* vault that the store holds as not filled and that has not expired.
Wit_C14 ==
  /\ last.op = "getLiveVaults"
  /\ last.bad = {}
  /\ Listed(last.result, "0xa1") /\ RecordOf(Stored, "0xa1").isFilled
  /\ ~Listed(last.result, "0xb2") /\ ~RecordOf(Stored, "0xb2").isFilled
  /\ ftime < MATURITY("0xb2")

\* C15: the live-vaults result is ordered by ascending utilization: of two
\* consecutive entries the first has a utilization less than or equal to
\* the second's.
Thm_C15 ==
  \A m \in 1..Len(sent) :
    sent[m].kind = "Message" =>
      \A n \in 1..(Len(sent[m].vaults) - 1) :
        sent[m].vaults[n].utilization <= sent[m].vaults[n + 1].utilization

\* An answer lists two vaults of different utilization, the one the store
\* holds second first.
Wit_C15 ==
  \E m \in 1..Len(sent) :
    /\ sent[m].kind = "Message"
    /\ Len(sent[m].vaults) = 2
    /\ toLowerCase(sent[m].vaults[1].address) = "0xb2"
    /\ sent[m].vaults[1].utilization < sent[m].vaults[2].utilization

\* C16: a live-vaults request that arrives less than 30 s after the
\* response was last computed, with no invalidation in between, is answered
\* with the cached response and without a chain read; a request that arrives
\* 30 s or more after it, or after an invalidation, recomputes the response.
C16_Step ==
  LET valid == cachedLiveVaultsMessage # NoMessage
      age   == now - cachedLiveVaultsTimestamp
  IN  /\ last'.op = "cachedLiveVaults" =>
           /\ valid /\ age < 30000
           /\ sent' = <<sendMessage(cachedLiveVaultsMessage)>>
           /\ UNCHANGED cacheVars
      /\ last'.op = "getLiveVaults" /\ last'.at = now =>
           /\ ~valid \/ age >= 30000
           /\ sent'[Len(sent')] = sendMessage(cachedLiveVaultsMessage')
           /\ cachedLiveVaultsMessage'.vaults = last'.result
           /\ cachedLiveVaultsTimestamp' = now

C17_Step ==
  /\ last'.op \in {"monitorCapUpdates", "checkAllVaultStatuses"}
  /\ \E v \in LowerKeys(Stored) :
       \/ RecordOf(Stored', v).totalSupplyCap # RecordOf(Stored, v).totalSupplyCap
       \/ RecordOf(Stored', v).lastKnownTotalSupply # RecordOf(Stored, v).lastKnownTotalSupply
       \/ RecordOf(Stored', v).isFilled # RecordOf(Stored, v).isFilled
  => cachedLiveVaultsMessage' = NoMessage

Cex_C17 == [][C17_Step]_vars


\* ---------------------------------------------------------------- C21
\* C21: an iteration that has blocks to process starts at the persisted
\* lastProcessedBlock + 1, also the first one after a restart, and the
\* persisted end of range moves only when an iteration completes, to the end
\* of a range that began one block after the previous persisted end: the
\* ranges of successive completed iterations leave no gap.
C21_Step ==
  LET before == Stored.lastProcessedBlock
      after  == Stored'.lastProcessedBlock
  IN  /\ (last'.op = "monitor" /\ last'.ranged)
           => /\ fromBlock' = before + 1
              /\ fromBlock' <= toBlock'
              /\ after = before
      /\ after # before
           => /\ last'.op = "advance"
              /\ after = toBlock
              /\ fromBlock = before + 1
Thm_C21 == [][C21_Step]_vars

\* The first iteration after a restart (lastStatusCheckBlock is 0 again)
\* over a store an earlier run has advanced starts a range.
Wit_C21 ==
  /\ last.op = "monitor"
  /\ last.ranged
  /\ lastStatusCheckBlock = 0
  /\ Stored.lastProcessedBlock > 0
  /\ fromBlock = Stored.lastProcessedBlock + 1


\* ---------------------------------------------------------------- C22
\* C22: loadExistingVaults runs the backfill exactly when the store holds
\* no vault; the backfill adds the records of the vaults it finds and sends
\* no notification.
C22_Step ==
  last'.op = "loadExistingVaults"
    => LET before == Stored
           after  == Stored'
       IN  /\ last'.backfill <=> (before.vaults = << >>)
           /\ sent' = << >>
           /\ created' = created
           /\ ~last'.backfill => after = before
           /\ Len(after.vaults) =
                Len(before.vaults)
                  + Cardinality({i \in DOMAIN last'.oc : last'.oc[i] = "added"})
Thm_C22 == [][C22_Step]_vars

\* A backfill has just stored the record of a vault created before the
\* start, and nothing was sent.
Wit_C22 ==
  /\ last.op = "loadExistingVaults"
  /\ last.backfill
  /\ \E i \in DOMAIN last.oc : last.oc[i] = "added"
  /\ Stored.vaults # << >>
  /\ sent = << >>


\* ---------------------------------------------------------------- C24
\* C24: no creation event is permanently skipped: whenever an iteration
\* starts a range, every creation event in a block below the range (which
\* no later iteration queries) has its vault in the store, so the events of
\* a range in which an exception was caught are queried again.
C24_Step ==
  (last'.op = "monitor" /\ last'.ranged)
    => \A v \in VaultIds :
         (0 < CreatedAt(v) /\ CreatedAt(v) < fromBlock') => v \in LowerKeys(Stored)
Cex_C24 == [][C24_Step]_vars


\* ------------------------------------------ two creations in one range
\* The running monitor over an empty store and a chain that holds, before
\* the first iteration, the creation of vault 0xb2 (block 119), the
\* creation of vault 0xa1 (block 120) and a cap event of 0xa1 (block 121).
\* 0xb2 matures first and is stored first.
PairLog ==
  <<[type |-> "create", amm |-> "0xb2", cap |-> InitialCap],
    [type |-> "create", amm |-> "0xa1", cap |-> InitialCap],
    [type |-> "cap",    amm |-> "0xa1", cap |-> 2000]>>

InitPair ==
  /\ log = PairLog
  /\ Init!2 /\ Init!3 /\ Init!4
  /\ pc = "loop"
  /\ Init!6 /\ Init!7 /\ Init!8
  /\ isRunning = TRUE
  /\ Init!10 /\ Init!11 /\ Init!12 /\ Init!13 /\ Init!14 /\ Init!15
  /\ Init!16 /\ Init!17 /\ Init!18 /\ Init!19 /\ Init!20 /\ Init!21 /\ Init!22

\* The awaited calls of new-vault detection that may fail: chain reads and
\* notifier calls.
Calls == {"read", "notify"}

\* A disk whose writes may fail: the write of addVault for the first or the
\* second event of monitorNewVaults (its third and sixth file operation),
\* the write that ends the iteration (its second).
AddVaultWrites == {0, 3, 6}
AdvanceWrites  == {0, 2}

NextPair ==
  \/ TimeAdvance
  \/ IterBegin({0})
  \/ MonitorNewVaults(AddVaultWrites, Calls)
  \/ MonitorCapUpdates({0}, Reads)
  \/ PeriodicCheck({0}, Reads)
  \/ Advance(AdvanceWrites)

SpecPair == InitPair /\ [][NextPair]_vars


\* ---------------------------------------------------------------- C25
\* C25: cap-update detection processes the cap log of every stored vault:
\* when none of its calls fails, every cap event of the queried range that
\* belongs to a stored, non-expired vault gets its CapRaised notification,
\* whatever vaults come before that vault in the store.
C25_Step ==
  (/\ last'.op = "monitorCapUpdates"
   /\ \A i \in DOMAIN last'.oc : last'.oc[i] \notin {"readFailed", "notifyFailed"})
    => \A v \in LowerKeys(Stored) :
         ftime < MATURITY(v)
           => CountKind(sent', "CapRaised", v)
                = Len(queryFilter("cap", v, fromBlock, toBlock))
Cex_C25 == [][C25_Step]_vars

\* ---------------------------------------------------------------- C26
\* C26: in new-vault detection a failure of the contract reads made for one
\* creation event leaves the other creation events of the range processed:
\* unless the log query itself failed, the vault of every creation event of
\* the range whose own reads did not fail is in the store afterwards.
C26_Step ==
  (/\ last'.op = "monitorNewVaults"
   /\ "readFailed" \in {last'.oc[i] : i \in DOMAIN last'.oc})
    => \A n \in DOMAIN last'.events :
         (n \notin DOMAIN last'.oc \/ last'.oc[n] # "readFailed")
           => toLowerCase(last'.events[n].amm) \in LowerKeys(Stored')
Cex_C26 == [][C26_Step]_vars


\* ---------------------------------------------------------------- C28
\* C28: a record whose save failed is included in the next successful save:
\* when new-vault detection has written the state file, the file holds the
\* record of every vault it has called addVault for so far, also of one
\* whose own write failed.
C28_Step ==
  (last'.op = "monitorNewVaults" /\ file' # file)
    => \A n \in DOMAIN last'.oc :
         last'.oc[n] \in {"notified", "expired", "notifyFailed"}
           => toLowerCase(last'.events[n].amm) \in LowerKeys(Stored')
Cex_C28 == [][C28_Step]_vars


\* ---------------------------------------------------------------- C27
\* The running monitor over an empty store and a chain that holds the
\* creation of vault 0xb2 (block 119).
InitLoop ==
  /\ log = <<[type |-> "create", amm |-> "0xb2", cap |-> InitialCap]>>
  /\ Init!2 /\ Init!3 /\ Init!4
  /\ pc = "loop"
  /\ Init!6 /\ Init!7 /\ Init!8
  /\ isRunning = TRUE
  /\ Init!10 /\ Init!11 /\ Init!12 /\ Init!13 /\ Init!14 /\ Init!15
  /\ Init!16 /\ Init!17 /\ Init!18 /\ Init!19 /\ Init!20 /\ Init!21 /\ Init!22

\* The steps of the monitor loop: chain reads, notifier calls and the
\* writes of the state file may fail.
MonitorStep ==
  \/ IterBegin({0})
  \/ MonitorNewVaults(AddVaultWrites, Calls)
  \/ MonitorCapUpdates({0}, Calls)
  \/ PeriodicCheck({0}, Calls)
  \/ Advance(AdvanceWrites)

NextLoop ==
  \/ SupplyChange
  \/ TimeAdvance
  \/ MonitorStep

\* Every awaited call of the loop settles and every sleep ends: the loop
\* takes its next step.
SpecLoop == InitLoop /\ [][NextLoop]_vars /\ WF_vars(MonitorStep)

\* The step just taken caught a failure: a chain read or a notifier call
\* failed inside one of the three phases, or the save that ends the
\* iteration did not reach the disk.
Failed ==
  \/ /\ last.op \in {"monitorNewVaults", "monitorCapUpdates", "checkAllVaultStatuses"}
     /\ \E i \in DOMAIN last.oc : last.oc[i] \in {"readFailed", "notifyFailed"}
  \/ /\ last.op = "advance"
     /\ Stored.lastProcessedBlock # toBlock

\* C27: no failure inside an iteration ends the monitor loop: the monitor
\* is running in every state, and after a failed step the loop reaches its
\* sleep, from which it starts another iteration.
Thm_C27 ==
  /\ [](isRunning)
  /\ Failed ~> (pc = "loop")
  /\ (pc = "loop") ~> (last.op = "monitor")

\* A contract read of new-vault detection has just failed, and the loop is
\* still running, on its way to cap-update detection.
Wit_C27 ==
  /\ Failed
  /\ last.op = "monitorNewVaults"
  /\ isRunning
  /\ pc = "capUpdates"


\* ---------------------------------------------------------------- C29
\* C29: after a status sweep, every vault whose inspection read the chain
\* and found it not expired has, in the store, the cap, the supply and the
\* fill flag of the values read, whether or not a notification was sent and
\* in whatever order the inspections of a batch reached their writes: no
\* write of one inspection undoes the write of another.
C29_Step ==
  last'.op = "checkAllVaultStatuses"
    => LET before == Stored
           after  == Stored'
       IN  \A j \in DOMAIN last'.oc :
             last'.oc[j] = "inspected"
               => LET v == toLowerCase(before.vaults[j].key)
                  IN  /\ v \in LowerKeys(after)
                      /\ RecordOf(after, v).totalSupplyCap = totalSupplyCapOf(v)
                      /\ RecordOf(after, v).lastKnownTotalSupply = totalSupplyOf(v)
                      /\ RecordOf(after, v).isFilled
                           = isVaultFilled(totalSupplyOf(v), totalSupplyCapOf(v))
Thm_C29 == [][C29_Step]_vars

\* A sweep has inspected both stored vaults and each sent a notification;
\* the second vault of the store reached its writes first.
Wit_C29 ==
  /\ last.op = "checkAllVaultStatuses"
  /\ Len(last.oc) = 2
  /\ \A j \in DOMAIN last.oc : last.oc[j] = "inspected"
  /\ Len(sent) = 2
  /\ toLowerCase(sent[1].address) = "0xb2"
  /\ toLowerCase(sent[2].address) = "0xa1"


\* ------------------------------------- a command overlapping the tracker
\* handleLiveVaultsCommand up to `await this.getLiveVaults()`: a fresh
\* cache is answered at once; otherwise the request reads the store and the
\* chain and is in flight until its answer is sent.  One request is
\* computed at a time.
BeginLiveVaults(pcs) ==
  /\ pc \in pcs
  /\ ~pending.active
  /\ LET cacheAge == now - cachedLiveVaultsTimestamp
     IN  IF cacheFresh(cachedLiveVaultsMessage, cacheAge)
           THEN /\ sent' = <<sendMessage(cachedLiveVaultsMessage)>>
                /\ last' = [op |-> "cachedLiveVaults", at |-> now]
                /\ UNCHANGED <<file, cacheVars>>
           ELSE \E bad \in SUBSET (1..Len(Stored.vaults)) :
                  /\ file' = getLiveVaults_store(Ctx(file), bad, 0).file
                  /\ pending' = [active |-> TRUE, at |-> now,
                                 liveVaults |-> getLiveVaults(Ctx(file), bad, 0)]
                  /\ stale' = FALSE
                  /\ sent' = <<sendMessage(fetchingMessage)>>
                  /\ last' = [op |-> "fetching", at |-> now]
                  /\ UNCHANGED <<cachedLiveVaultsMessage, cachedLiveVaultsTimestamp, now>>
  /\ UNCHANGED <<chainVars, procVars, histVars, fnVars>>

\* handleLiveVaultsCommand after `await this.getLiveVaults()` (vaultMonitor.ts
\* 117-136): the answer is cached under the time the request began, then
\* sent.
EndLiveVaults ==
  /\ pending.active
  /\ LET message == IF Len(pending.liveVaults) = 0 THEN emptyMessage
                    ELSE formatLiveVaultsList(pending.liveVaults)
     IN  /\ cachedLiveVaultsMessage' = message
         /\ cachedLiveVaultsTimestamp' = pending.at
         /\ sent' = <<sendMessage(message)>>
         /\ last' = [op |-> "getLiveVaults", bad |-> {}, result |-> pending.liveVaults,
                     at |-> pending.at]
  /\ pending' = NoRequest
  /\ UNCHANGED <<chainVars, file, procVars, histVars, fnVars, now, stale>>

\* A running monitor that has processed the creation of vault 0xb2 in
\* block 119 and watches the CapRaised notifications of that vault.
InitRun ==
  /\ log = <<[type |-> "create", amm |-> "0xb2", cap |-> InitialCap]>>
  /\ Init!2 /\ Init!3
  /\ file = saveState(Ctx(NoFile),
                      [lastProcessedBlock |-> BaseHeight + 1,
                       vaults |-> <<[key |-> "0xb2",
                                     v |-> TrackedVault("0xb2", BaseHeight + 1, 500)]>>],
                      0).file
  /\ pc = "loop"
  /\ Init!6 /\ Init!7 /\ Init!8
  /\ isRunning = TRUE
  /\ Init!10 /\ Init!11
  /\ created = [v \in VaultIds |-> IF v = "0xb2" THEN 1 ELSE 0]
  /\ firstSeen = [v \in VaultIds |-> IF v = "0xb2" THEN "event" ELSE "none"]
  /\ Init!14 /\ Init!15 /\ Init!16 /\ Init!17 /\ Init!18 /\ Init!19 /\ Init!20
  /\ raised = [v \in {"0xb2"} |-> 0]
  /\ Init!22

NextRun ==
  \/ NewBlock
  \/ SupplyChange
  \/ Tick
  \/ IterBegin({0})
  \/ MonitorNewVaults({0}, {})
  \/ MonitorCapUpdates({0}, {})
  \/ PeriodicCheck({0}, {})
  \/ Advance({0})
  \/ BeginLiveVaults(Anywhere)
  \/ EndLiveVaults

\* The running monitor and /liveVaults commands whose computation overlaps
\* the phases of the loop.
SpecRun == InitRun /\ [][NextRun]_vars

\* ---------------------------------------------------------------- C23
\* C23: a cap change on the chain yields at most one CapRaised: a vault
\* never has more CapRaised notifications than the chain has cap events for
\* it, whether the status sweep, cap-update detection or both observe a
\* change.
Cex_C23 ==
  \A v \in DOMAIN raised : raised[v] <= Len(queryFilter("cap", v, 0, height))

\* ---------------------------------------------------------------- C30
\* C30: when the tracker has persisted a transition and invalidated the cache
\* while a /liveVaults request was being computed, no later request is
\* answered from the cache with the response of that request.
Cex_C30 == last.op = "cachedLiveVaults" => ~stale


\* ---------------------------------------------------------------- C32
\* C32: a notification that fails to be delivered does not stop the
\* iteration: when a notifier call of new-vault detection has failed, every
\* creation event of the queried range has still been handled.
C32_Step ==
  (/\ last'.op = "monitorNewVaults"
   /\ \E i \in DOMAIN last'.oc : last'.oc[i] = "notifyFailed")
    => Len(last'.oc) = Len(last'.events)
Cex_C32 == [][C32_Step]_vars


\* ---------------------------------------------------------------- C33
\* Number of notifications for vault v in a sequence.
CountFor(out, v) ==
  Cardinality({i \in 1..Len(out) : toLowerCase(out[i].address) = v})

\* C33: a detection whose chain read failed emits nothing.  New-vault
\* detection sends one notification for every event it read and reported,
\* none for an event whose reads failed; a status inspection whose reads
\* failed sends nothing for its vault; cap-update detection sends nothing
\* for the event whose supply read failed nor for the events after it.
C33_Step ==
  LET before == Stored
      oc     == last'.oc
  IN  /\ last'.op = "monitorNewVaults"
           => Len(sent') = Cardinality({i \in DOMAIN oc :
                                          oc[i] \in {"notified", "notifyFailed"}})
      /\ last'.op \in {"checkAllVaultStatuses", "baseline"}
           => \A j \in DOMAIN oc :
                oc[j] = "readFailed"
                  => CountFor(sent', toLowerCase(before.vaults[j].key)) = 0
      /\ last'.op = "monitorCapUpdates"
           => \A j \in DOMAIN oc :
                oc[j] = "readFailed"
                  => LET v == toLowerCase(before.vaults[j].key)
                         n == Len(queryFilter("cap", v, fromBlock, toBlock))
                     IN  \/ CountFor(sent', v) = 0
                         \/ CountKind(sent', "CapRaised", v) < n
Thm_C33 == [][C33_Step]_vars

\* Cap-update detection found the cap event of the second stored vault,
\* the read of its supply failed, and nothing was sent.
Wit_C33 ==
  /\ last.op = "monitorCapUpdates"
  /\ last.oc = <<"done", "readFailed">>
  /\ Len(queryFilter("cap", "0xa1", fromBlock, toBlock)) = 1
  /\ sent = << >>


\* ---------------------------------------------------------------- C35
\* C35: a /liveVaults request, answered from the cache or computed, at any
\* position of the tracker loop, leaves lastProcessedBlock and the cap,
\* supply, fill flag and maturity of every stored vault as they were.
C35_Step ==
  last'.op \in {"getLiveVaults", "cachedLiveVaults"}
    => LET before == Stored
           after  == Stored'
       IN  /\ after.lastProcessedBlock = before.lastProcessedBlock
           /\ Len(after.vaults) = Len(before.vaults)
           /\ \A j \in DOMAIN before.vaults :
                /\ after.vaults[j].key = before.vaults[j].key
                /\ after.vaults[j].v.totalSupplyCap = before.vaults[j].v.totalSupplyCap
                /\ after.vaults[j].v.lastKnownTotalSupply
                     = before.vaults[j].v.lastKnownTotalSupply
                /\ after.vaults[j].v.isFilled = before.vaults[j].v.isFilled
                /\ after.vaults[j].v.maturity = before.vaults[j].v.maturity
Thm_C35 == [][C35_Step]_vars

\* A request was computed between new-vault detection and cap-update
\* detection while the store held a supply that the chain no longer has.
Wit_C35 ==
  /\ last.op = "getLiveVaults"
  /\ pc = "capUpdates"
  /\ Len(last.result) > 0
  /\ \E j \in DOMAIN Stored.vaults :
       Stored.vaults[j].v.lastKnownTotalSupply # totalSupplyOf(Stored.vaults[j].key)


\* ---------------------------------------------------------------- C31
\* The fill status the chain gives a stored vault now.
ChainFilled(key) == isVaultFilled(totalSupplyOf(key), totalSupplyCapOf(key))

\* C31: an iteration whose block is 120 or more past the block of the
\* previous sweep runs the sweep, and a sweep whose reads of a non-expired
\* vault succeed, while the chain's fill status of the vault differs from
\* the stored isFilled, emits the one matching notification: VaultFilled
\* when the chain says filled, VaultAvailable when it says not filled.  A
\* difference that stays is therefore reported by the first such sweep.
C31_Step ==
  pc = "sweep" /\ pc' = "advance"
    => LET before == Stored
       IN  /\ toBlock - lastStatusCheckBlock >= STATUS_CHECK_INTERVAL_BLOCKS
                => last'.op = "checkAllVaultStatuses"
           /\ last'.op = "checkAllVaultStatuses"
                => \A j \in DOMAIN before.vaults :
                     LET key == toLowerCase(before.vaults[j].key)
                         sv  == before.vaults[j].v
                     IN  (/\ ftime < sv.maturity
                          /\ sv.isFilled # ChainFilled(key)
                          /\ last'.oc[j] = "inspected")
                           => /\ CountKind(sent', "VaultFilled", key)
                                   = IF ChainFilled(key) THEN 1 ELSE 0
                              /\ CountKind(sent', "VaultAvailable", key)
                                   = IF ChainFilled(key) THEN 0 ELSE 1
Thm_C31 == [][C31_Step]_vars

\* A sweep has run at a block 120 past the previous one and has announced
\* as filled a vault that the store held as not filled.
Wit_C31 ==
  /\ last.op = "checkAllVaultStatuses"
  /\ lastStatusCheckBlock >= STATUS_CHECK_INTERVAL_BLOCKS
  /\ \E i \in DOMAIN sent, j \in DOMAIN Stored.vaults :
       /\ sent[i].kind = "VaultFilled"
       /\ sent[i].prevFilled = FALSE
       /\ Stored.vaults[j].key = toLowerCase(sent[i].address)
       /\ Stored.vaults[j].v.isFilled


\* ---------------------------------------------------------------- C36
\* The notification that follows the n-th one is the availability
\* re-announcement of the same vault.
Reannounced(out, n) ==
  /\ n < Len(out)
  /\ out[n + 1].kind \in {"VaultAvailable", "VaultCreated"}
  /\ out[n + 1].address = out[n].address

\* C36: in a cap-update detection without failures, the CapRaised of a cap
\* event is followed by an availability re-announcement exactly when the
\* isFilled stored for the vault immediately before that event was true
\* and the vault is not Filled under the event's cap; a change announced
\* for an earlier event of the range is not announced again.
Cex_C36 ==
  (/\ last.op = "monitorCapUpdates"
   /\ \A j \in DOMAIN last.oc : last.oc[j] = "done")
    => \A n \in 1..Len(sent) :
         sent[n].kind = "CapRaised" =>
           (Reannounced(sent, n)
              <=> (sent[n].prevFilled
                     /\ ~isVaultFilled(sent[n].currentSupply, sent[n].newCap)))


\* ---------------------------------------------------------------- C37
\* C37: a sweep or a cap-update detection that changes the stored isFilled
\* of a non-expired vault from false to true sends a VaultFilled
\* notification for that vault.
C37_Step ==
  last'.op \in {"monitorCapUpdates", "checkAllVaultStatuses"}
    => LET before == Stored
           after  == Stored'
       IN  \A j \in DOMAIN before.vaults :
             (/\ ftime < before.vaults[j].v.maturity
              /\ ~before.vaults[j].v.isFilled
              /\ \E i \in DOMAIN after.vaults :
                   /\ after.vaults[i].key = before.vaults[j].key
                   /\ after.vaults[i].v.isFilled)
               => CountKind(sent', "VaultFilled", before.vaults[j].key) >= 1
Cex_C37 == [][C37_Step]_vars


\* ---------------------------------------------------------------- C38
\* C38: every CapRaised notification, from cap-update detection or from
\* the sweep, has newCap strictly above oldCap.
Cex_C38 ==
  \A n \in DOMAIN sent :
    sent[n].kind = "CapRaised" => sent[n].newCap > sent[n].oldCap


\* ---------------------------------------------------------------- C39
\* C39: a vault that the backfill of a cold start found among the creation
\* events up to the height it read gets no VaultCreated notification from
\* new-vault detection in the regular loop.
Cex_C39 ==
  last.op = "monitorNewVaults"
    => \A v \in VaultIds :
         firstSeen[v] = "backfill" => CountKind(sent, "VaultCreated", v) = 0


\* ------------------------------------------------------- stop and shutdown
\* The positions at which the process awaits and a call from outside or a
\* signal handler can run.
Awaiting == {"init", "baseline", "loop", "newVaults", "capUpdates", "sweep", "advance"}

\* The iteration has begun and has not yet saved lastProcessedBlock.
MidIteration == {"newVaults", "capUpdates", "sweep", "advance"}

\* VaultMonitor.stop(): this.isRunning = false (vaultMonitor.ts 779-782);
\* the monitor goes on from where it awaits.
stop(running, at) == [isRunning |-> FALSE, pc |-> at]

\* stop() is called while the monitor awaits at one of the positions pcs.
Stop(pcs) ==
  /\ pc \in pcs
  /\ afterStop < 0
  /\ isRunning' = stop(isRunning, pc).isRunning
  /\ pc' = stop(isRunning, pc).pc
  /\ afterStop' = 0
  /\ sent' = << >>
  /\ last' = [op |-> "stop", at |-> pc]
  /\ UNCHANGED <<chainVars, file, fromBlock, toBlock, lastStatusCheckBlock,
                 created, firstSeen, raised, fnVars, cacheVars>>

\* The SIGINT and SIGTERM handlers of index.ts: monitor.stop(), then
\* process.exit(0).
Shutdown(pcs) ==
  /\ pc \in pcs
  /\ isRunning' = stop(isRunning, pc).isRunning
  /\ pc' = "exited"
  /\ sent' = << >>
  /\ last' = [op |-> "shutdown", at |-> pc]
  /\ UNCHANGED <<chainVars, file, fromBlock, toBlock, lastStatusCheckBlock,
                 histVars, fnVars, cacheVars>>

\* while (this.isRunning) finds the flag false: monitor() returns
\* (vaultMonitor.ts 507).
LoopExit ==
  /\ pc = "loop"
  /\ ~isRunning
  /\ pc' = "stopped"
  /\ sent' = << >>
  /\ last' = [op |-> "return"]
  /\ UNCHANGED <<chainVars, file, fromBlock, toBlock, lastStatusCheckBlock, isRunning,
                 histVars, fnVars, cacheVars>>

NextStop ==
  \/ NewBlock
  \/ StartBackfill({0})
  \/ Baseline({0}, {})
  \/ IterBegin({0})
  \/ MonitorNewVaults({0}, {})
  \/ MonitorCapUpdates({0}, {})
  \/ PeriodicCheck({0}, {})
  \/ Advance({0})
  \/ Stop(Awaiting)
  \/ Shutdown(Awaiting)
  \/ LoopExit

\* The monitor from a cold start, with stop() calls and shutdown signals
\* arriving wherever it awaits.
SpecStop == Init /\ [][NextStop]_vars

\* ---------------------------------------------------------------- C34
\* C34: a shutdown signal does not end the process while an iteration is
\* between its first phase and the save of lastProcessedBlock: the process
\* ends only from the loop's sleep and running-flag check (or before the
\* loop has started).
Cex_C34 == last.op = "shutdown" => last.at \notin MidIteration

\* ---------------------------------------------------------------- C40
\* C40: after stop() has been called, during startup or while the loop
\* runs, the monitor loop begins at most one more iteration.
Cex_C40 == afterStop <= 1

=============================================================================
